---- MODULE Spec2Model ----
(***************************************************************************)
(* Rift CI/CD healing agent: the repair loop.                              *)
(*                                                                         *)
(* Two entry points drive the same analyze -> generate -> apply loop:      *)
(*   run_agent     (src/agent/agent.py)      the LangGraph state machine   *)
(*   run_agent_v2  (src/agent/v2_adapter.py) a plain for-loop              *)
(* A behaviour of Spec is one run of one of them.  The collaborators       *)
(* (analysis tools, text-generation providers, patch applier) are inputs   *)
(* drawn at each step; each of them may also raise.                        *)
(***************************************************************************)
EXTENDS Integers, Sequences, FiniteSets, TLC

\* ------------------------------------------------------------------ bounds
\* largest max_iterations a caller passes
MaxIterations == 5
\* largest number of errors one analysis pass reports
MaxErrors == 2
\* largest number of fixes one generate_fixes call returns
MaxFixes == 1
\* cap on the length of the running fix list (unbounded in the code)
MaxTotalFixes == 2
\* largest number of words in a finding's message
MaxWords == 2
\* largest number of elements in the provider's JSON array
MaxCandidates == 2
\* largest number of findings in ruff's JSON output
MaxRuffItems == 2
\* largest number of records in an errors.json document
MaxRecords == 2
\* the largest commit count calculate_score is called with
MaxCommits == 80
\* largest number of characters in a team or leader name
MaxNameLen == 3
\* largest number of lines in the file a rename is computed for
MaxFileLines == 4
\* largest number of passes of a run whose summary is computed on its own
MaxSavedPasses == 25

\* (file_path, line_number) keys a fix can carry
FixKeys == {"a.py:1", "b.py:2"}

\* max_iterations values the caller passes (all >= 1)
MaxIterationsChoices == {1, 2, 3, MaxIterations}

\* config.py: (LLM_PROVIDER, set of providers whose API key is non-empty)
Configs ==
    { <<"groq", {}>>,
      <<"openai", {"google", "openai"}>> }

VARIABLES
    entry,                  \* which entry point the caller invoked
    LLM_PROVIDER,           \* config.LLM_PROVIDER
    API_KEYS,               \* providers whose *_API_KEY is set
    pc,                     \* graph node / loop position about to run
    error_logs,             \* AgentState.error_logs / v2 errors
    current_iteration,      \* AgentState.current_iteration
    max_iterations,         \* AgentState.max_iterations / v2 parameter
    final_fixes,            \* AgentState.final_fixes
    fix_results,            \* AgentState.fix_results
    all_passed,             \* AgentState.all_passed / v2 all_passed
    total_errors_detected,  \* AgentState.total_errors_detected / v2 local
    error_count_history,    \* AgentState.error_count_history / v2 local
    stagnant_count,         \* AgentState.stagnant_count / v2 local
    results,                \* results.json: <<>> until save_results writes it
    iteration,              \* v2 loop variable
    fixes,                  \* v2 local: fixes returned by generate_fixes
    all_fix_records,        \* v2 local
    run_result,             \* v2 return value: <<>> until returned
    engine_result,          \* history: outcome of the latest generate step
    engine_calls,           \* history: passes in which generate_fixes was called
    applier_calls,          \* history: <<pass, fixes>> per apply_all_fixes call
    raw_finding,            \* classify_bug_type: its argument `error`
    classified,             \* classify_bug_type: its outcome
    errors_arg,             \* generate_fixes: its argument `errors`
    raw_response,           \* generate_fixes: what call_llm returned
    rule_calls,             \* history: <<err, fixes>> per _generate_rule_fixes call
    ruff_fix,               \* history: outcome of the ruff --fix subprocess
    gen_result,             \* generate_fixes: its outcome
    tools,                  \* what each analysis tool does when it is run
    sbx_pc,                 \* position inside the Analyzing step
    errors_file,            \* <repo_path>/errors.json: << >> when missing
    analysis,               \* outcome of the Analyzing step
    runs,                   \* api_server.runs
    threads,                \* per run: the state of its background thread
    disk,                   \* per repository path: errors.json, results.json
    http_response,          \* the latest answer of GET /api/results/<run_id>
    tool_outputs,           \* parse_logs: the three raw tool output files
    agg_result,             \* parse_logs.main: its outcome and intermediate lists
    agg_again,              \* parse_logs.main: a second run on the same files
    errors_doc,             \* parse_errors_json: the errors.json it is given
    parse_result,           \* parse_errors_json: its outcome
    score_args,             \* calculate_score: its arguments
    score,                  \* calculate_score: its outcome
    branch_args,            \* build_branch_name: its arguments
    branch,                 \* build_branch_name: its outcome
    llm_calls,              \* call_llm: history of its provider calls
    llm_result,             \* call_llm: its outcome, then the parsed fixes
    scope_args,             \* _fix_e741_scope_aware: the file and the error
    scope                   \* _fix_e741_scope_aware: scope and fixed lines

vars ==
    << entry, LLM_PROVIDER, API_KEYS, pc, error_logs, current_iteration,
       max_iterations, final_fixes, fix_results, all_passed,
       total_errors_detected, error_count_history, stagnant_count, results,
       iteration, fixes, all_fix_records, run_result, engine_result,
       engine_calls, applier_calls, raw_finding, classified, errors_arg,
       raw_response, rule_calls, ruff_fix, gen_result, tools, sbx_pc,
       errors_file, analysis, runs, threads, disk, http_response, tool_outputs, agg_result,
       agg_again, errors_doc, parse_result, score_args, score, branch_args,
       branch, llm_calls, llm_result, scope_args, scope >>

config_vars == << entry, LLM_PROVIDER, API_KEYS, max_iterations >>
graph_vars == << current_iteration, final_fixes, fix_results, results >>
v2_vars == << iteration, fixes, all_fix_records, run_result >>
loop_vars ==
    << config_vars, graph_vars, v2_vars, pc, error_logs, all_passed,
       total_errors_detected, error_count_history, stagnant_count,
       engine_result, engine_calls, applier_calls >>
\* state of the components that are also exercised on their own
cls_vars == << raw_finding, classified >>
gen_vars == << errors_arg, raw_response, rule_calls, ruff_fix, gen_result >>
sbx_vars == << tools, sbx_pc, errors_file, analysis >>
api_vars == << runs, threads, disk, http_response >>
agg_vars == << tool_outputs, agg_result, agg_again >>
prs_vars == << errors_doc, parse_result >>
scr_vars == << score_args, score >>
aux_vars == << agg_vars, prs_vars, scr_vars >>
brn_vars == << branch_args, branch >>
llm_vars == << llm_calls, llm_result >>
scp_vars == << scope_args, scope >>
ext_vars == << brn_vars, llm_vars, scp_vars >>
unit_vars == << cls_vars, gen_vars, sbx_vars, api_vars, aux_vars, ext_vars >>

\* ----------------------------------------------------------------- helpers
Max(a, b) == IF a >= b THEN a ELSE b

Range(s) == { s[i] : i \in 1..Len(s) }

Last(s) == s[Len(s)]

\* all sequences over S of length at most n
SeqsUpTo(S, n) == UNION { [1..k -> S] : k \in 0..n }

\* an analysis pass reporting n errors: the list of n distinct errors
ErrorList(n) == [i \in 1..n |-> i]

ErrorLists == { ErrorList(n) : n \in 0..MaxErrors }

\* the lists generate_fixes can return when the running list has `have` fixes
FixLists(have) ==
    { fl \in SeqsUpTo(FixKeys, MaxFixes) : have + Len(fl) <= MaxTotalFixes }

\* ------------------------------------------------------- fix_generator.py
FallbackOrder == << "groq", "google", "anthropic", "openai" >>

\* seeded fault: the configured primary provider is not moved to the front
providers_fixed_order(primary, keys) ==
    SelectSeq(FallbackOrder, LAMBDA n : n \in keys)

\* call_llm: the provider list, primary first, then the others with keys
providers(primary, keys) ==
    LET first == IF primary \in Range(FallbackOrder) /\ primary \in keys
                 THEN << primary >> ELSE << >>
    IN  first \o SelectSeq(FallbackOrder,
                           LAMBDA n : n \in keys /\ n \notin Range(first))

\* seeded fault: call_llm returns an "[LLM_ERROR]" string instead of raising
call_llm_never_raises(primary, keys) == FALSE

\* call_llm raises RuntimeError when no provider has a key
call_llm_raises(primary, keys) == providers(primary, keys) = << >>

\* ------------------------------------------------------- file_patcher.py
\* apply_all_fixes: one (fix, success) pair per fix, in input order
apply_all_fixes(new, success) == [i \in 1..Len(new) |-> << new[i], success[i] >>]

\* ---------------------------------------------------------------- agent.py
\* seeded fault: only a rising error count is taken as stagnation
stagnation_check_strict(history, stagnant) ==
    IF Len(history) >= 2 /\ history[Len(history)] > history[Len(history) - 1]
    THEN stagnant + 1
    ELSE 0

\* analyze_logs: stagnation update, given the history with the new count
stagnation_check(history, stagnant) ==
    IF Len(history) >= 2 /\ history[Len(history)] >= history[Len(history) - 1]
    THEN stagnant + 1
    ELSE 0

\* seeded fault: generate_fix without its early return
nothing_to_fix_never(errors) == FALSE

\* generate_fix: the early return taken when there is nothing to fix
nothing_to_fix(errors) == errors = << >>

\* seeded fault: apply_fix applies the whole running list again
new_fixes_all(all_fixes, existing_results) == all_fixes

\* apply_fix: the slice of the running list not yet attempted
new_fixes(all_fixes, existing_results) ==
    SubSeq(all_fixes, Len(existing_results) + 1, Len(all_fixes))

\* apply_fix: the FixRecord built from each (fix, success) pair
result_entries(pairs) ==
    [i \in 1..Len(pairs) |->
        [fix |-> pairs[i][1],
         status |-> IF pairs[i][2] THEN "fixed" ELSE "failed"]]

\* verify_fix: the update it returns
verify_fix(cur) == cur + 1

\* seeded fault: stagnation stops the run one pass later
should_continue_stagnant3(state) ==
    IF state.all_passed THEN "save_results"
    ELSE IF state.current_iteration >= state.max_iterations THEN "save_results"
    ELSE IF state.stagnant_count >= 3 THEN "save_results"
    ELSE "analyze_logs"

\* seeded fault: should_continue without the iteration bound
should_continue_unbounded(state) ==
    IF state.all_passed THEN "save_results"
    ELSE IF state.stagnant_count >= 2 THEN "save_results"
    ELSE "analyze_logs"

\* seeded fault: should_continue goes on after a pass without errors
should_continue_after_clean(state) ==
    IF state.current_iteration >= state.max_iterations THEN "save_results"
    ELSE IF state.stagnant_count >= 2 THEN "save_results"
    ELSE "analyze_logs"

\* should_continue: the conditional edge out of verify_fix
should_continue(state) ==
    IF state.all_passed THEN "save_results"
    ELSE IF state.current_iteration >= state.max_iterations THEN "save_results"
    ELSE IF state.stagnant_count >= 2 THEN "save_results"
    ELSE "analyze_logs"

\* seeded fault: the number of applied fixes is taken as the commit count
commit_count_fixes(cur, successful_fixes) == successful_fixes

\* save_results: the fourth argument of _calculate_score
commit_count(cur, successful_fixes) == Max(1, cur - 1)

\* seeded fault: iterations_used without the "- 1"
iterations_used_raw(cur) == Max(1, cur)

\* save_results: iterations_used
iterations_used(cur) == Max(1, cur - 1)

\* ------------------------------------------------------------ text and JSON
\* A str is the sequence of its words (joined by single spaces); a JSON /
\* Python value is a tagged record, so that values of different types can be
\* compared.  t = "absent" stands for a key the dict does not have.
Absent == [t |-> "absent", s |-> << >>, n |-> 0]
Null == [t |-> "null", s |-> << >>, n |-> 0]
List == [t |-> "list", s |-> << >>, n |-> 0]
Str(words) == [t |-> "str", s |-> words, n |-> 0]
Num(k) == [t |-> "int", s |-> << >>, n |-> k]

\* dict.get(key, default)
Get(d, key, default) == IF d[key].t = "absent" THEN default ELSE d[key]

\* str.lower() of one word
Lower(w) ==
    CASE w = "Ruff" -> "ruff"
      [] w = "TypeError" -> "typeerror"
      [] w = "SyntaxError" -> "syntaxerror"
      [] w = "ImportError" -> "importerror"
      [] w = "ModuleNotFoundError" -> "modulenotfounderror"
      [] w = "IndentationError" -> "indentationerror"
      [] w = "AssertionError" -> "assertionerror"
      [] w = "Name" -> "name"
      [] w = "Ambiguous variable name:" -> "ambiguous variable name:"
      [] OTHER -> w

\* str.upper() of one word or of one character
Upper(w) ==
    CASE w = "f401" -> "F401"
      [] w = "a" -> "A"
      [] OTHER -> w

lower(words) == [i \in 1..Len(words) |-> Lower(words[i])]
upper(words) == [i \in 1..Len(words) |-> Upper(words[i])]

\* the keywords of classify_bug_type that occur inside a lower-case word
Keywords(w) ==
    CASE w = "typeerror" -> {"typeerror", "type"}
      [] w = "syntaxerror" -> {"syntaxerror", "syntax"}
      [] w = "importerror" -> {"importerror", "import"}
      [] w = "modulenotfounderror" -> {"modulenotfounderror"}
      [] w = "indentationerror" -> {"indentationerror", "indent"}
      [] w = "assertionerror" -> {"assertionerror", "assert"}
      [] w = "assert" -> {"assert"}
      [] w = "expected" -> {"expected"}
      [] w = "import" -> {"import"}
      [] w = "imported but unused" -> {"import"}
      [] w = "type" -> {"type"}
      [] OTHER -> {}

\* needle in text, for a needle without a space
In(needle, text) == \E i \in 1..Len(text) : needle \in Keywords(text[i])

\* "type error" in text: the only needle that spans two words
InTypeError(text) ==
    \E i \in 1..(Len(text) - 1) : text[i] = "type" /\ text[i + 1] = "error"

\* seeded fault: no rule code has any prefix
StartsWith_never(text, prefix) == FALSE

\* str.startswith(prefix) for the two-character prefixes of rule codes
StartsWith(text, prefix) ==
    /\ Len(text) >= 1
    /\ prefix = CASE text[1] = "F401" -> "F4"
                  [] text[1] = "E111" -> "E1"
                  [] text[1] = "E999" -> "E9"
                  [] text[1] = "E501" -> "E5"
                  [] text[1] = "E741" -> "E7"
                  [] OTHER -> ""

\* --------------------------------------------------------- error_parser.py
\* config.VALID_BUG_TYPES
VALID_BUG_TYPES ==
    {"LINTING", "SYNTAX", "LOGIC", "TYPE_ERROR", "IMPORT", "INDENTATION"}

\* classify_bug_type: error.get(k, "").lower() / .upper() raises
\* AttributeError when the key is present with a value that is no str
classify_bug_type_raises(error) ==
    \E k \in {"source", "message", "rule_code"} :
        Get(error, k, Str(<< >>)).t # "str"

\* classify_bug_type: the value returned when it does not raise
classify_bug_type(error) ==
    LET source == lower(Get(error, "source", Str(<< >>)).s)
        message == lower(Get(error, "message", Str(<< >>)).s)
        rule == upper(Get(error, "rule_code", Str(<< >>)).s)
    IN  IF source = << "ruff" >>
        THEN IF StartsWith(rule, "F4") \/ In("import", message)
             THEN "IMPORT"
             ELSE IF StartsWith(rule, "E1") \/ In("indent", message)
             THEN "INDENTATION"
             ELSE IF StartsWith(rule, "E9") \/ In("syntax", message)
             THEN "SYNTAX"
             ELSE "LINTING"
        ELSE IF source = << "pytest" >>
        THEN IF \/ In("typeerror", message)
                \/ InTypeError(message)
                \/ In("expected", message)
             THEN "TYPE_ERROR"
             ELSE IF In("syntaxerror", message)
             THEN "SYNTAX"
             ELSE IF \/ In("importerror", message)
                     \/ In("modulenotfounderror", message)
             THEN "IMPORT"
             ELSE IF In("indentationerror", message)
             THEN "INDENTATION"
             ELSE IF In("assertionerror", message) \/ In("assert", message)
             THEN "LOGIC"
             ELSE "LOGIC"
        ELSE IF In("import", message)
        THEN "IMPORT"
        ELSE IF In("indent", message)
        THEN "INDENTATION"
        ELSE IF In("syntax", message)
        THEN "SYNTAX"
        ELSE IF In("type", message)
        THEN "TYPE_ERROR"
        ELSE "LINTING"

\* words a finding's message is made of
Words ==
    {"TypeError", "SyntaxError", "ImportError", "ModuleNotFoundError",
     "IndentationError", "AssertionError", "assert", "expected", "import",
     "type", "error", "Name"}

\* the raw findings classify_bug_type is called with
Sources ==
    {Absent, Null, Str(<< "ruff" >>), Str(<< "Ruff" >>), Str(<< "pytest" >>),
     Str(<< "mypy" >>), Str(<< "bandit" >>)}

Messages == {Absent, Null} \cup { Str(w) : w \in SeqsUpTo(Words, MaxWords) }

RuleCodes ==
    {Absent, Null, Str(<< >>), Str(<< "F401" >>), Str(<< "f401" >>),
     Str(<< "E111" >>), Str(<< "E999" >>), Str(<< "E501" >>)}

RawFindings == [source : Sources, message : Messages, rule_code : RuleCodes]

NotClassified == [outcome |-> "not_called", bug_type |-> ""]

ClsIdle ==
    /\ raw_finding = [source |-> Absent, message |-> Absent,
                      rule_code |-> Absent]
    /\ classified = NotClassified

\* ------------------------------------- fix_generator.py: the strategy engine
\* config.COMMIT_PREFIX
COMMIT_PREFIX == "[AI-AGENT]"

\* str.startswith(COMMIT_PREFIX)
startswith_prefix(text) == Len(text) >= 1 /\ text[1] = COMMIT_PREFIX

\* value in VALID_BUG_TYPES
in_VALID_BUG_TYPES(v) ==
    v.t = "str" /\ Len(v.s) = 1 /\ v.s[1] \in VALID_BUG_TYPES

\* the keys of a fix dict
FixFields ==
    {"file_path", "line_number", "bug_type", "fix_description",
     "commit_message"}

\* one element of the provider's JSON: an object with these keys and a
\* fixed_code, or (json # "object") a number, string or null, which has no
\* keys at all
Element(json, file_path, line_number, bug_type, fix_description, commit_message) ==
    [json |-> json, file_path |-> file_path, line_number |-> line_number,
     bug_type |-> bug_type, fix_description |-> fix_description,
     commit_message |-> commit_message, fixed_code |-> Str(<< "code" >>)]

\* a well-formed fix object
Fix(file, line, bug_type, description, commit) ==
    Element("object", Str(<< file >>), Num(line), Str(<< bug_type >>),
            Str(<< description >>), Str(commit))

\* the text call_llm returned, by the shape parse_llm_response sees once the
\* ``` fences are stripped, with the JSON elements it carries
Response(form, items) == [form |-> form, items |-> items]

NoResponse == Response("not_called", << >>)

\* parse_llm_response
parse_llm_response(raw) ==
    CASE raw.form = "llm_error" -> << >>      \* starts with "[LLM_ERROR]"
      [] raw.form = "array" -> raw.items      \* json.loads gives a list
      [] raw.form = "object" -> raw.items     \* json.loads gives a dict: [dict]
      [] raw.form = "scalar" -> << >>         \* other JSON: no regex matches
      [] raw.form = "prose_array" -> raw.items   \* regex \[\s*\{.*?\}\s*\]
      [] raw.form = "prose_object" -> raw.items  \* regex {..."file_path"...}
      [] OTHER -> << >>                       \* no JSON in the text

\* normalize_fix raises: fix.get on a value that is no dict (AttributeError),
\* an unhashable bug_type tested against the set (TypeError), .startswith on
\* a commit_message that is no str (AttributeError)
normalize_fix_raises(fix) ==
    \/ fix.json # "object"
    \/ fix.bug_type.t = "list"
    \/ Get(fix, "commit_message", Str(<< >>)).t # "str"

\* seeded fault: normalize_fix returns the fix as it came
normalize_fix_asis(fix) == fix

\* normalize_fix
normalize_fix(fix) ==
    LET f1 == IF ~in_VALID_BUG_TYPES(Get(fix, "bug_type", Null))
              THEN [fix EXCEPT !.bug_type = Str(<< "LINTING" >>)]
              ELSE fix
        where == Get(f1, "file_path", Str(<< "unknown" >>))
    IN  IF ~startswith_prefix(Get(f1, "commit_message", Str(<< >>)).s)
        THEN [f1 EXCEPT !.commit_message =
                 Str(<< COMMIT_PREFIX, "Fix" >> \o f1.bug_type.s
                     \o << "error in" >> \o where.s)]
        ELSE f1

\* validate_fix (called on a normalized fix)
validate_fix(fix) ==
    /\ \A k \in FixFields : fix[k].t # "absent"
    /\ in_VALID_BUG_TYPES(fix.bug_type)
    /\ fix.commit_message.t = "str"
    /\ startswith_prefix(fix.commit_message.s)

\* (f.get("file_path"), f.get("line_number"))
KeyOf(d) == << Get(d, "file_path", Null), Get(d, "line_number", Null) >>

\* a tuple with a list in it cannot be put in a set: TypeError
Unhashable(key) == key[1].t = "list" \/ key[2].t = "list"

\* generate_fixes: the loop over the parsed elements
llm_fixes(elements) ==
    SelectSeq([i \in 1..Len(elements) |-> normalize_fix(elements[i])],
              validate_fix)

\* generate_fixes: covered_keys
covered_keys(validated) == { KeyOf(validated[i]) : i \in 1..Len(validated) }

\* seeded fault: every error is handed to the rule-based strategy
uncovered_all(errs, validated) == errs

\* generate_fixes: uncovered
uncovered(errs, validated) ==
    SelectSeq(errs, LAMBDA e : KeyOf(e) \notin covered_keys(validated))

\* (fix.get("file_path", ""), fix.get("line_number", 0))
DedupeKey(d) ==
    << Get(d, "file_path", Str(<< >>)), Get(d, "line_number", Num(0)) >>

\* generate_fixes: Deduplicate, keep the first fix per (file, line)
deduplicate(validated) ==
    LET first(i) ==
            \A j \in 1..(i - 1) :
                DedupeKey(validated[j]) # DedupeKey(validated[i])
        keep == { i \in 1..Len(validated) : first(i) }
        F[i \in 0..Len(validated)] ==
            IF i = 0 THEN << >>
            ELSE IF i \in keep THEN Append(F[i - 1], validated[i])
            ELSE F[i - 1]
    IN  F[Len(validated)]

\* error_parser.parse_errors_json: the ParsedError built from one finding of
\* errors.json that classify_bug_type accepts
ParsedError(file, line, finding) ==
    [file_path |-> Str(<< file >>),
     line_number |-> Num(line),
     bug_type |-> Str(<< classify_bug_type(finding) >>),
     raw_message |-> finding.message,
     rule_code |-> Get(finding, "rule_code", Null)]

\* findings as sandbox_runner.run_local_analysis writes them: ruff's carry
\* the rule code in front of the message and have no "rule_code" key
Findings ==
    { [source |-> Str(<< "ruff" >>), rule_code |-> Absent,
       message |-> Str(<< "F401", "os", "imported but unused" >>)],
      \* a finding as the docstring of parse_errors_json shows it
      [source |-> Str(<< "ruff" >>), rule_code |-> Str(<< "F401" >>),
       message |-> Str(<< "sys", "imported but unused" >>)],
      [source |-> Str(<< "ruff" >>), rule_code |-> Absent,
       message |-> Str(<< "E741", "Ambiguous variable name:", "l" >>)],
      \* the same finding from a producer that writes the message in lower case
      [source |-> Str(<< "ruff" >>), rule_code |-> Absent,
       message |-> Str(<< "E741", "ambiguous variable name:", "l" >>)],
      [source |-> Str(<< "ruff" >>), rule_code |-> Absent,
       message |-> Str(<< "E501", "Line too long" >>)],
      [source |-> Str(<< "pytest" >>), rule_code |-> Absent,
       message |-> Str(<< "AssertionError", "assert" >>)] }

\* line numbers of the repository's file
Lines == 1..2

ParsedErrors == { ParsedError("a.py", l, f) : l \in Lines, f \in Findings }

\* the error lists generate_fixes is called with
GenErrorLists == SeqsUpTo(ParsedErrors, MaxErrors)

\* _fix_e741_scope_aware: one rename fix per line of the enclosing scope that
\* uses the variable
RenameFix(err, line) ==
    Fix(err.file_path.s[1], line, "LINTING", "rename",
        << COMMIT_PREFIX, "Rename variable" >>)

\* the elements of a set of line numbers in ascending order
Ascending(T) ==
    CHOOSE s \in [1..Cardinality(T) -> T] :
        \A i \in 1..(Cardinality(T) - 1) : s[i] < s[i + 1]

\* seeded fault: the rule-based strategy has no fix for any error
RuleFixes_none(err) == {<< >>}

\* re.search(r"ambiguous variable name.?\s*`?(\w+)`?", msg): the search is
\* case-sensitive, ruff writes "Ambiguous variable name: `l`"
e741_match(msg) == "ambiguous variable name:" \in Range(msg)

\* _generate_rule_fixes: the lists it can return for err, over every content
\* of the repository's file (E741: the lines of the scope that use the
\* variable, none when the file cannot be read or the message does not match)
RuleFixes(err) ==
    LET msg == err.raw_message.s IN
    IF "ambiguous variable name:" \in Range(lower(msg))
    THEN IF e741_match(msg)
         THEN { [i \in 1..Cardinality(T) |-> RenameFix(err, Ascending(T)[i])] :
                  T \in SUBSET Lines }
         ELSE {<< >>}
    ELSE IF Len(msg) >= 2 /\ Last(msg) = "imported but unused"
    THEN LET unused == msg[Len(msg) - 1] IN
         {<< [json |-> "object",
              file_path |-> err.file_path,
              line_number |-> err.line_number,
              bug_type |-> Str(<< "IMPORT" >>),
              fix_description |-> Str(<< "remove unused import", unused >>),
              fixed_code |-> Str(<< >>),
              commit_message |->
                  Str(<< COMMIT_PREFIX, "Remove unused import", unused, "in" >>
                      \o err.file_path.s)] >>}
    ELSE {<< >>}

\* str.startswith(("F", "E", "W", "I"))
startswith_FEWI(text) ==
    /\ Len(text) >= 1
    /\ text[1] \in {"F401", "E741", "E501", "E111", "E999", "ImportError",
                    "IndentationError"}

\* _ruff_autofix_fallback: linting
linting(errs) == SelectSeq(errs, LAMBDA e : startswith_FEWI(e.raw_message.s))

\* what the `ruff check --fix` subprocess did: it raised (ruff absent,
\* timeout), its output has no "Fixed N", or it has
RuffOutcomes ==
    { [outcome |-> "raised", count |-> 0],
      [outcome |-> "no_match", count |-> 0] }
      \cup { [outcome |-> "fixed", count |-> c] : c \in 0..MaxErrors }

RuffNotRun == [outcome |-> "not_run", count |-> 0]

\* seeded fault: one fix per linting error, whatever ruff's "Fixed N" says
autofix_fixes_all(errs, ruff) ==
    IF ruff.outcome = "fixed"
    THEN [i \in 1..Len(linting(errs)) |->
             [json |-> "object",
              file_path |-> linting(errs)[i].file_path,
              line_number |-> linting(errs)[i].line_number,
              bug_type |-> linting(errs)[i].bug_type,
              fix_description |-> Str(<< "auto-fixed by ruff:" >>),
              fixed_code |-> Str(<< "[auto-fixed by ruff]" >>),
              commit_message |-> Str(<< COMMIT_PREFIX, "Auto-fix" >>),
              already_applied |-> TRUE]]
    ELSE << >>

\* _ruff_autofix_fallback: one fix per error of linting[:count]; the key
\* "_already_applied" is the field already_applied
autofix_fixes(errs, ruff) ==
    IF ruff.outcome = "fixed"
    THEN LET lint == linting(errs)
             n == IF ruff.count < Len(lint) THEN ruff.count ELSE Len(lint)
         IN  [i \in 1..n |->
                 [json |-> "object",
                  file_path |-> lint[i].file_path,
                  line_number |-> lint[i].line_number,
                  bug_type |-> lint[i].bug_type,
                  fix_description |-> Str(<< "auto-fixed by ruff:" >>),
                  fixed_code |-> Str(<< "[auto-fixed by ruff]" >>),
                  commit_message |->
                      Str(<< COMMIT_PREFIX, "Auto-fix" >>
                          \o lint[i].raw_message.s \o << "in" >>
                          \o lint[i].file_path.s),
                  already_applied |-> TRUE]]
    ELSE << >>

\* the JSON elements a provider's answer is made of: well-formed fixes and
\* the ways an element can be malformed
Elements ==
    { Fix("a.py", 1, "SYNTAX", "d1", << COMMIT_PREFIX, "Fix" >>),
      Fix("a.py", 2, "LOGIC", "d2", << COMMIT_PREFIX, "Fix" >>),
      \* a bug_type outside the taxonomy
      Fix("a.py", 1, "STYLE", "d3", << COMMIT_PREFIX, "Fix" >>),
      \* a commit_message without the prefix
      Fix("a.py", 2, "IMPORT", "d4", << "Fix", "it" >>),
      \* no bug_type and no commit_message
      Element("object", Str(<< "a.py" >>), Num(1), Absent, Str(<< "d5" >>),
              Absent),
      \* no file_path
      Element("object", Absent, Num(2), Str(<< "LINTING" >>),
              Str(<< "d6" >>), Str(<< COMMIT_PREFIX, "Fix" >>)),
      \* commit_message null
      Element("object", Str(<< "a.py" >>), Num(1), Str(<< "LINTING" >>),
              Str(<< "d7" >>), Null),
      \* bug_type a list
      Element("object", Str(<< "a.py" >>), Num(2), List, Str(<< "d8" >>),
              Str(<< COMMIT_PREFIX, "Fix" >>)),
      \* line_number a string
      Element("object", Str(<< "a.py" >>), Str(<< "1" >>),
              Str(<< "LINTING" >>), Str(<< "d9" >>),
              Str(<< COMMIT_PREFIX, "Fix" >>)),
      \* line_number a list
      Element("object", Str(<< "a.py" >>), List, Str(<< "LINTING" >>),
              Str(<< "d10" >>), Str(<< COMMIT_PREFIX, "Fix" >>)),
      \* not an object: a number
      Element("number", Absent, Absent, Absent, Absent, Absent) }

Objects == { e \in Elements : e.json = "object" }

\* the texts call_llm can return
Responses ==
    { Response(form, << >>) : form \in {"llm_error", "scalar", "prose"} }
      \cup { Response("array", items) :
               items \in SeqsUpTo(Elements, MaxCandidates) }
      \cup { Response(form, << e >>) :
               form \in {"object", "prose_array"}, e \in Objects }
      \cup { Response("prose_object", << e >>) :
               e \in { o \in Objects : o.file_path.t # "absent" } }

\* generate_fixes's argument repo_path
repo_path == "/repo"

NotGenerated == [outcome |-> "not_called", fixes |-> << >>]

GenIdle ==
    /\ errors_arg = << >>
    /\ raw_response = NoResponse
    /\ rule_calls = << >>
    /\ ruff_fix = RuffNotRun
    /\ gen_result = NotGenerated

\* the concatenation of a sequence of sequences
Flatten(ss) ==
    LET F[i \in 0..Len(ss)] == IF i = 0 THEN << >> ELSE F[i - 1] \o ss[i]
    IN  F[Len(ss)]

\* what _generate_rule_fixes can return for each error of errs, in order
RuleChoices(errs) ==
    { rc \in [1..Len(errs) -> UNION { RuleFixes(e) : e \in ParsedErrors }] :
        \A i \in 1..Len(errs) : rc[i] \in RuleFixes(errs[i]) }

\* generate_fixes: the raise out of its loops over the provider's elements
llm_fixes_raise(elements) ==
    \/ \E i \in 1..Len(elements) : normalize_fix_raises(elements[i])
    \/ \E i \in 1..Len(llm_fixes(elements)) :
           Unhashable(KeyOf(llm_fixes(elements)[i]))

\* ------------------------------------- sandbox_runner.py: the Analyzing step
\* what the `docker run` subprocess can do: the container wrote errors.json
\* with n findings, it ended without writing it, subprocess.run raised
\* TimeoutExpired, FileNotFoundError (no docker) or another exception
DockerOutcomes ==
    { [outcome |-> "wrote", findings |-> n] : n \in 0..MaxErrors }
      \cup { [outcome |-> o, findings |-> 0] :
               o \in {"no_file", "timeout", "absent", "error"} }

\* what a local subprocess (ruff check, pytest) can do: it ran and reported n
\* findings, or subprocess.run raised TimeoutExpired, FileNotFoundError (tool
\* absent) or another OSError
LocalOutcomes ==
    { [outcome |-> "ran", findings |-> n] : n \in 0..MaxErrors }
      \cup { [outcome |-> o, findings |-> 0] :
               o \in {"timeout", "absent", "oserror"} }

\* the environment of one Analyzing step
ToolOutcomes ==
    [docker : DockerOutcomes, ruff_fix : LocalOutcomes, ruff : LocalOutcomes,
     pytest : LocalOutcomes]

\* n findings reported by one tool, as entries of errors.json
FindingsOf(tool, n) == [i \in 1..n |-> tool]

\* seeded fault: the except clause names FileNotFoundError only
caught_absent_only(outcome) == outcome = "absent"

\* run_local_analysis: except (FileNotFoundError, subprocess.TimeoutExpired)
caught(outcome) == outcome \in {"absent", "timeout"}

\* run_local_analysis: what one guarded tool run adds to `errors`
local_findings(tool, run) ==
    IF run.outcome = "ran" THEN FindingsOf(tool, run.findings) ELSE << >>

NotAnalyzed == [outcome |-> "not_called", errors |-> << >>]

SbxIdle ==
    /\ tools = [docker |-> [outcome |-> "absent", findings |-> 0],
                ruff_fix |-> [outcome |-> "absent", findings |-> 0],
                ruff |-> [outcome |-> "absent", findings |-> 0],
                pytest |-> [outcome |-> "absent", findings |-> 0]]
    /\ sbx_pc = "idle"
    /\ errors_file = << >>
    /\ analysis = NotAnalyzed

\* ---------------------------------------------------------- api_server.py
\* run identifiers trigger_agent hands out (uuid4 prefixes) and the
\* repository paths a request can name
RunIds == {"r1", "r2"}

Paths == {"/p", "/q"}

NoFile == << >>

\* a file's content, with the run that wrote it
File(writer, n) == << [writer |-> writer, errors |-> n] >>

NoRun == [status |-> "none", repo_path |-> "", results |-> NoFile]

NoThread == [pc |-> "none", error_logs |-> NoFile, results |-> NoFile]

NoReply == [run |-> "none", code |-> 0, body |-> NoFile]

ApiIdle ==
    /\ runs = [r \in RunIds |-> NoRun]
    /\ threads = [r \in RunIds |-> NoThread]
    /\ disk = [p \in Paths |-> [errors_json |-> NoFile,
                                results_json |-> NoFile]]
    /\ http_response = NoReply

\* ------------------------------------------- infrastructure/parse_logs.py
\* A path is the sequence of its pieces: the separators "/" and "\\", "."
\* and names.
RUFF_CODE_MAP(code) ==
    CASE code = "E999" -> "SYNTAX"
      [] code = "F401" -> "IMPORT"
      [] code = "E111" -> "INDENTATION"
      [] code = "E501" -> "LINTING"
      [] code = "W291" -> "LINTING"

DEFAULT_RUFF_TYPE == "LINTING"

\* RUFF_CODE_MAP.get(code, DEFAULT_RUFF_TYPE)
ruff_type(code) ==
    IF code.t = "str" /\ Len(code.s) = 1
          /\ code.s[1] \in {"E999", "F401", "E111", "E501", "W291"}
    THEN RUFF_CODE_MAP(code.s[1])
    ELSE DEFAULT_RUFF_TYPE

\* normalize_path: replace every backslash, then strip one leading "./"
normalize_path(filepath) ==
    LET normalized ==
            [i \in 1..Len(filepath) |->
                IF filepath[i] = "\\" THEN "/" ELSE filepath[i]]
    IN  IF Len(normalized) >= 2 /\ normalized[1] = "." /\ normalized[2] = "/"
        THEN SubSeq(normalized, 3, Len(normalized))
        ELSE normalized

\* one entry of the unified schema
ErrorRecord(type, file, line, message, source, code) ==
    [type |-> type, file |-> file, line |-> line, message |-> message,
     source |-> source, code |-> code]

\* one element of ruff's JSON array: an object with the keys code, filename,
\* location (absent, null or an object that may have a row) and message, or
\* (json # "object") a number
RuffItem(json, code, filename, location, row, message) ==
    [json |-> json, code |-> code, filename |-> filename,
     location |-> location, row |-> row, message |-> message]

\* item.get("location", {}).get("row", 0)
ruff_line(item) ==
    IF item.location = "absent" THEN Num(0) ELSE Get(item, "row", Num(0))

\* parse_ruff: the loop body raises: item.get on a number, normalize_path on
\* a filename that is no str, .get on a null location, `line <= 0` on a line
\* that is no number
ruff_item_raises(item) ==
    \/ item.json # "object"
    \/ Get(item, "filename", Str(<< "unknown" >>)).t # "str"
    \/ item.location = "null"
    \/ ruff_line(item).t # "int"

\* the file a tool wrote: missing, empty (or "[]"), not JSON, JSON that is no
\* array, an array
ToolOutput(form, items) == [form |-> form, items |-> items]

parse_ruff_raises(raw) ==
    /\ raw.form = "list"
    /\ \E i \in 1..Len(raw.items) : ruff_item_raises(raw.items[i])

\* parse_ruff: the entries it returns when it does not raise
parse_ruff(raw) ==
    IF raw.form # "list"
    THEN << >>
    ELSE LET kept == SelectSeq(raw.items, LAMBDA it : ruff_line(it).n > 0)
         IN  [i \in 1..Len(kept) |->
                 ErrorRecord(
                     ruff_type(Get(kept[i], "code", Str(<< >>))),
                     normalize_path(
                         Get(kept[i], "filename", Str(<< "unknown" >>)).s),
                     ruff_line(kept[i]).n,
                     Get(kept[i], "message", Str(<< "Unknown ruff error" >>)),
                     "ruff",
                     Get(kept[i], "code", Str(<< >>)))]

\* one line of mypy's text output: "error" when the pattern
\* path:line:col: error: message matches, "other" when it does not
MypyLine(kind, path, line_no, message) ==
    [kind |-> kind, path |-> path, line_no |-> line_no, message |-> message]

\* parse_mypy: only a missing file is caught, and no line makes it raise
parse_mypy(raw) ==
    IF raw.form # "text"
    THEN << >>
    ELSE LET kept == SelectSeq(raw.items,
                         LAMBDA l : l.kind = "error" /\ l.line_no > 0)
         IN  [i \in 1..Len(kept) |->
                 ErrorRecord("TYPE_ERROR", normalize_path(kept[i].path),
                             kept[i].line_no, Str(kept[i].message), "mypy",
                             Str(<< >>))]

\* len() of the texts a test report carries
CharLen(w) ==
    CASE w = "boom" -> 4
      [] w = "assert 3 == 4" -> 13
      [] w = "E assert 3 == 4" -> 15
      [] w = "Test failed" -> 11
      [] w = "Test assertion failed" -> 21

StrLen(s) == IF s = << >> THEN 0 ELSE CharLen(s[1])

\* one element of the report's "tests": an object with outcome, nodeid and
\* a call phase (absent, null or an object) that may carry a crash (path,
\* lineno, message) and a longrepr, or (json # "object") a number
Test(json, outcome, call, crash, path, lineno, message, longrepr, nodeid) ==
    [json |-> json, outcome |-> outcome, call |-> call, crash |-> crash,
     path |-> path, lineno |-> lineno, message |-> message,
     longrepr |-> longrepr, nodeid |-> nodeid]

\* the loop looks at this test
failed(test) == test.json # "object" \/ test.outcome \in {"failed", "error"}

has_crash(test) == test.call = "dict" /\ test.crash = "dict"

\* file_path after the phases and the nodeid fallback
pytest_file(test) ==
    LET crash_file ==
            IF has_crash(test)
            THEN normalize_path(Get(test, "path", Str(<< "unknown" >>)).s)
            ELSE << "unknown" >>
        nodeid == Get(test, "nodeid", Str(<< >>)).s
        first == CHOOSE i \in 1..Len(nodeid) :
                     nodeid[i] = "::" /\ \A j \in 1..(i - 1) : nodeid[j] # "::"
    IN  IF crash_file = << "unknown" >> /\ "::" \in Range(nodeid)
        THEN normalize_path(SubSeq(nodeid, 1, first - 1))
        ELSE crash_file

pytest_line(test) ==
    IF has_crash(test) THEN Get(test, "lineno", Num(0)) ELSE Num(0)

\* message after the longrepr enrichment
pytest_message(test) ==
    LET message == IF has_crash(test)
                   THEN Get(test, "message", Str(<< "Test assertion failed" >>))
                   ELSE Str(<< "Test failed" >>)
        last_line == IF test.call = "dict"
                     THEN Get(test, "longrepr", Str(<< >>))
                     ELSE Str(<< >>)
    IN  IF /\ StrLen(message.s) < 10
           /\ last_line.s # << >>
           /\ StrLen(last_line.s) > StrLen(message.s)
        THEN last_line
        ELSE message

\* parse_pytest: the loop body raises: test.get on a number, .get on a null
\* phase, normalize_path on a path that is no str, `"::" in nodeid` on a
\* nodeid that is no str, len() of a message that is no str, `line_no <= 0`
\* on a line that is no number
pytest_test_raises(test) ==
    \/ test.json # "object"
    \/ /\ test.outcome \in {"failed", "error"}
       /\ \/ test.call = "null"
          \/ has_crash(test)
                /\ Get(test, "path", Str(<< "unknown" >>)).t # "str"
          \/ ~has_crash(test) /\ Get(test, "nodeid", Str(<< >>)).t # "str"
          \/ has_crash(test)
                /\ Get(test, "message", Str(<< >>)).t # "str"
          \/ pytest_line(test).t # "int"

\* parse_pytest raises: data.get on JSON that is no object, a loop over
\* "tests": null, the loop body
parse_pytest_raises(raw) ==
    \/ raw.form = "nonobject"
    \/ raw.form = "tests_null"
    \/ /\ raw.form = "object"
       /\ \E i \in 1..Len(raw.items) : pytest_test_raises(raw.items[i])

\* parse_pytest: the entries it returns when it does not raise
parse_pytest(raw) ==
    IF raw.form # "object"
    THEN << >>
    ELSE LET kept == SelectSeq(raw.items, failed)
         IN  [i \in 1..Len(kept) |->
                 ErrorRecord("LOGIC", pytest_file(kept[i]),
                             IF pytest_line(kept[i]).n <= 0
                             THEN 1 ELSE pytest_line(kept[i]).n,
                             pytest_message(kept[i]), "pytest", Str(<< >>))]

\* (error["file"], error["line"], error["type"])
ErrorKey(error) == << error.file, error.line, error.type >>

\* seeded fault: every entry is kept
parse_logs_deduplicate_all(errs) == errs

\* parse_logs.deduplicate: keep the first entry per (file, line, type)
parse_logs_deduplicate(errs) ==
    LET F[i \in 0..Len(errs)] ==
            IF i = 0 THEN << >>
            ELSE IF \E j \in 1..(i - 1) : ErrorKey(errs[j]) = ErrorKey(errs[i])
            THEN F[i - 1]
            ELSE Append(F[i - 1], errs[i])
    IN  F[Len(errs)]

VALID_TYPES ==
    {"LINTING", "SYNTAX", "LOGIC", "TYPE_ERROR", "IMPORT", "INDENTATION"}

\* seeded fault: no entry is dropped and no message replaced
validate_output_asis(errs) == errs

\* validate_output: every entry here has a str file and an int line, so the
\* isinstance tests hold; the remaining tests drop or repair the entry
validate_output(errs) ==
    LET kept == SelectSeq(errs,
                    LAMBDA e : /\ e.file # << >>
                               /\ e.line > 0
                               /\ e.type \in VALID_TYPES)
    IN  [i \in 1..Len(kept) |->
            IF kept[i].message.t # "str" \/ kept[i].message.s = << >>
            THEN [kept[i] EXCEPT !.message = Str(<< "Unknown error" >>)]
            ELSE kept[i]]

\* the first character of a piece of a path, as its code point
CodePoint(piece) ==
    CASE piece = "." -> 46
      [] piece = "/" -> 47
      [] piece = "\\" -> 92
      [] piece = "a.py" -> 97
      [] piece = "b.py" -> 98
      [] piece = "d" -> 100
      [] piece = "unknown" -> 117

\* s < t for two str (no piece is a prefix of another piece)
StrLess(s, t) ==
    \/ Len(s) < Len(t) /\ SubSeq(t, 1, Len(s)) = s
    \/ \E i \in 1..Len(s) :
          /\ i <= Len(t)
          /\ SubSeq(s, 1, i - 1) = SubSeq(t, 1, i - 1)
          /\ CodePoint(s[i]) < CodePoint(t[i])

\* (a["file"], a["line"]) < (b["file"], b["line"])
KeyLess(a, b) ==
    StrLess(a.file, b.file) \/ (a.file = b.file /\ a.line < b.line)

\* list.sort(key=...): the entries in ascending key order, entries with
\* equal keys in their order in the list (the sort is stable)
sort(errs) ==
    LET insert(sorted, e) ==
            LET k == Cardinality({ i \in 1..Len(sorted) :
                                      ~KeyLess(e, sorted[i]) })
            IN  SubSeq(sorted, 1, k) \o << e >>
                    \o SubSeq(sorted, k + 1, Len(sorted))
        F[i \in 0..Len(errs)] ==
            IF i = 0 THEN << >> ELSE insert(F[i - 1], errs[i])
    IN  F[Len(errs)]

\* seeded fault: the list is written in merge order
sort_results_unsorted(errs) == {errs}

\* seeded fault: entries with equal keys come out in any order
sort_results_unstable(errs) ==
    { s \in [1..Len(errs) -> Range(errs)] :
        /\ \A e \in Range(errs) :
               Cardinality({ i \in 1..Len(errs) : s[i] = e })
                   = Cardinality({ i \in 1..Len(errs) : errs[i] = e })
        /\ \A i \in 1..(Len(errs) - 1) : ~KeyLess(s[i + 1], s[i]) }

\* the lists valid_errors.sort can leave: the one stable order
sort_results(errs) == {sort(errs)}

\* ruff's findings
RuffItems ==
    { RuffItem("object", Str(<< "E501" >>), Str(<< "a.py" >>), "dict",
               Num(1), Str(<< "m1" >>)),
      \* the same file, line and type under another spelling of the path
      RuffItem("object", Str(<< "W291" >>), Str(<< ".", "/", "a.py" >>),
               "dict", Num(1), Str(<< "m2" >>)),
      RuffItem("object", Str(<< "W291" >>),
               Str(<< ".", "/", ".", "/", "a.py" >>), "dict", Num(1),
               Str(<< "m3" >>)),
      RuffItem("object", Str(<< "F401" >>), Str(<< "d", "\\", "a.py" >>),
               "dict", Num(2), Str(<< "m1" >>)),
      \* message null
      RuffItem("object", Str(<< "E501" >>), Str(<< "b.py" >>), "dict",
               Num(1), Null),
      \* no filename, no message, no code
      RuffItem("object", Absent, Absent, "dict", Num(2), Absent),
      \* an empty filename
      RuffItem("object", Str(<< "E501" >>), Str(<< >>), "dict", Num(1),
               Str(<< "m1" >>)),
      \* row 0, no location
      RuffItem("object", Str(<< "E501" >>), Str(<< "a.py" >>), "dict",
               Num(0), Str(<< "m1" >>)),
      RuffItem("object", Str(<< "E501" >>), Str(<< "a.py" >>), "absent",
               Absent, Str(<< "m1" >>)),
      \* location null
      RuffItem("object", Str(<< "E501" >>), Str(<< "a.py" >>), "null",
               Absent, Str(<< "m1" >>)),
      \* not an object: a number
      RuffItem("number", Absent, Absent, "absent", Absent, Absent) }

RuffOutputs ==
    { ToolOutput(form, << >>) :
        form \in {"missing", "empty", "invalid", "nonlist"} }
      \cup { ToolOutput("list", items) :
               items \in SeqsUpTo(RuffItems, MaxRuffItems) }

\* mypy's output lines
MypyLines ==
    { MypyLine("error", << "a.py" >>, 1, << "m4" >>),
      MypyLine("error", << ".", "\\", "b.py" >>, 2, << "m5" >>),
      MypyLine("error", << "a.py" >>, 0, << "m6" >>),
      MypyLine("other", << >>, 0, << >>) }

MypyOutputs ==
    {ToolOutput("missing", << >>)}
      \cup { ToolOutput("text", items) : items \in SeqsUpTo(MypyLines, 1) }

\* the tests of pytest's report
Tests ==
    { Test("object", "failed", "dict", "dict", Str(<< ".", "/", "a.py" >>),
           Num(2), Str(<< "assert 3 == 4" >>), Absent, Absent),
      \* a short message and a longrepr, lineno 0
      Test("object", "failed", "dict", "dict", Str(<< "a.py" >>), Num(0),
           Str(<< "boom" >>), Str(<< "E assert 3 == 4" >>), Absent),
      \* an empty message
      Test("object", "failed", "dict", "dict", Str(<< "b.py" >>), Num(1),
           Str(<< >>), Absent, Absent),
      \* no crash: the file comes from the nodeid
      Test("object", "error", "absent", "absent", Absent, Absent, Absent,
           Absent, Str(<< "d", "\\", "a.py", "::", "test" >>)),
      Test("object", "passed", "dict", "absent", Absent, Absent, Absent,
           Absent, Absent),
      \* "call": null
      Test("object", "failed", "null", "absent", Absent, Absent, Absent,
           Absent, Absent),
      \* crash message null
      Test("object", "failed", "dict", "dict", Str(<< "a.py" >>), Num(1),
           Null, Absent, Absent),
      \* not an object: a number
      Test("number", "", "absent", "absent", Absent, Absent, Absent, Absent,
           Absent) }

\* the report: missing, not JSON, JSON that is no object, an object without
\* "tests", with "tests": null, with a list of tests
PytestOutputs ==
    { ToolOutput(form, << >>) :
        form \in {"missing", "invalid", "nonobject", "tests_null"} }
      \cup { ToolOutput("object", items) : items \in SeqsUpTo(Tests, 1) }

NoToolOutputs ==
    [ruff |-> ToolOutput("missing", << >>),
     mypy |-> ToolOutput("missing", << >>),
     pytest |-> ToolOutput("missing", << >>)]

NotAggregated ==
    [outcome |-> "not_called", ruff |-> << >>, mypy |-> << >>,
     pytest |-> << >>, unique_errors |-> << >>, valid_errors |-> << >>,
     output |-> << >>]

NotAgain == [outcome |-> "not_called", output |-> << >>]

AggIdle ==
    /\ tool_outputs = NoToolOutputs
    /\ agg_result = NotAggregated
    /\ agg_again = NotAgain

\* ----------------------------------------- error_parser.parse_errors_json
\* one element of the errors.json array: an object with these keys, or (json
\* # "object") a number
ErrorItem(json, file, line, message, source, rule_code) ==
    [json |-> json, file |-> file, line |-> line, message |-> message,
     source |-> source, rule_code |-> rule_code]

\* the truth value Python gives a JSON value (`not x` is its negation)
Truthy(v) ==
    CASE v.t = "str" -> v.s # << >>
      [] v.t = "int" -> v.n # 0
      [] OTHER -> FALSE

\* int(x) raises: TypeError for None, ValueError for a str that is no number
int_raises(v) == v.t = "null" \/ (v.t = "str" /\ v.s # << "3" >>)

\* int(x) when it does not raise
int(v) == IF v.t = "str" THEN 3 ELSE v.n

\* parse_errors_json: the loop skips this element
skipped(err) ==
    \/ err.json # "object"
    \/ ~Truthy(Get(err, "file", Str(<< >>)))
    \/ ~Truthy(Get(err, "message", Str(<< >>)))

\* parse_errors_json: classify_bug_type(err) or int(line_number) raises for
\* an element the loop does not skip
parse_errors_json_raises(doc) ==
    /\ doc.form = "list"
    /\ \E i \in 1..Len(doc.items) :
           /\ ~skipped(doc.items[i])
           /\ \/ classify_bug_type_raises(doc.items[i])
              \/ int_raises(Get(doc.items[i], "line", Num(0)))

\* parse_errors_json: the list it returns when it does not raise; a missing
\* file, invalid JSON and a document that is no list give []
parse_errors_json(doc) ==
    IF doc.form # "list"
    THEN << >>
    ELSE LET kept == SelectSeq(doc.items, LAMBDA e : ~skipped(e))
         IN  [i \in 1..Len(kept) |->
                 [file_path |-> Get(kept[i], "file", Str(<< >>)),
                  line_number |-> Num(int(Get(kept[i], "line", Num(0)))),
                  bug_type |-> Str(<< classify_bug_type(kept[i]) >>),
                  raw_message |-> Get(kept[i], "message", Str(<< >>)),
                  rule_code |-> Get(kept[i], "rule_code", Null)]]

\* the elements of an errors.json document
ErrorItems ==
    { ErrorItem("object", Str(<< "a.py" >>), Num(15),
                Str(<< "F401", "os", "imported but unused" >>),
                Str(<< "ruff" >>), Str(<< "F401" >>)),
      ErrorItem("object", Str(<< "a.py" >>), Num(1),
                Str(<< "AssertionError", "assert" >>), Str(<< "pytest" >>),
                Absent),
      \* no file, an empty file, a null file
      ErrorItem("object", Absent, Num(1), Str(<< "E501" >>),
                Str(<< "ruff" >>), Absent),
      ErrorItem("object", Str(<< >>), Num(1), Str(<< "E501" >>),
                Str(<< "ruff" >>), Absent),
      ErrorItem("object", Null, Num(1), Str(<< "E501" >>),
                Str(<< "ruff" >>), Absent),
      \* no message
      ErrorItem("object", Str(<< "a.py" >>), Num(1), Absent,
                Str(<< "ruff" >>), Absent),
      \* line 0, no line, a negative line
      ErrorItem("object", Str(<< "a.py" >>), Num(0), Str(<< "E501" >>),
                Str(<< "ruff" >>), Absent),
      ErrorItem("object", Str(<< "a.py" >>), Absent, Str(<< "E501" >>),
                Str(<< "ruff" >>), Absent),
      ErrorItem("object", Str(<< "a.py" >>), Num(-1), Str(<< "E501" >>),
                Str(<< "ruff" >>), Absent),
      \* line "3", line "abc", line null
      ErrorItem("object", Str(<< "a.py" >>), Str(<< "3" >>), Str(<< "E501" >>),
                Str(<< "ruff" >>), Absent),
      ErrorItem("object", Str(<< "a.py" >>), Str(<< "abc" >>),
                Str(<< "E501" >>), Str(<< "ruff" >>), Absent),
      ErrorItem("object", Str(<< "a.py" >>), Null, Str(<< "E501" >>),
                Str(<< "ruff" >>), Absent),
      \* rule_code null
      ErrorItem("object", Str(<< "a.py" >>), Num(2), Str(<< "E501" >>),
                Str(<< "ruff" >>), Null),
      \* not an object: a number
      ErrorItem("number", Absent, Absent, Absent, Absent, Absent) }

\* errors.json as parse_errors_json finds it: missing, not JSON, JSON that
\* is no array, an array
Document(form, items) == [form |-> form, items |-> items]

Documents ==
    { Document(form, << >>) : form \in {"missing", "invalid", "nonlist"} }
      \cup { Document("list", items) :
               items \in SeqsUpTo(ErrorItems, MaxRecords) }

NotParsed == [outcome |-> "not_called", errors |-> << >>]

PrsIdle ==
    /\ errors_doc = Document("missing", << >>)
    /\ parse_result = NotParsed

\* ------------------------------------------------- config.calculate_score
\* seeded fault: the final score is not floored at 0
calculate_score_nofloor(total_fixes, successful_fixes, elapsed_seconds, total_commits) ==
    LET base_score == 100
        speed_bonus == IF elapsed_seconds < 300 THEN 10 ELSE 0
        efficiency_penalty == Max(0, total_commits - 20) * 2
    IN  [base_score |-> base_score, speed_bonus |-> speed_bonus,
         efficiency_penalty |-> efficiency_penalty,
         final_score |-> base_score + speed_bonus - efficiency_penalty]

\* calculate_score
calculate_score(total_fixes, successful_fixes, elapsed_seconds, total_commits) ==
    LET base_score == 100
        speed_bonus == IF elapsed_seconds < 300 THEN 10 ELSE 0
        efficiency_penalty == Max(0, total_commits - 20) * 2
        final_score == base_score + speed_bonus - efficiency_penalty
    IN  [base_score |-> base_score, speed_bonus |-> speed_bonus,
         efficiency_penalty |-> efficiency_penalty,
         final_score |-> Max(0, final_score)]

\* the arguments calculate_score is called with: fix counts, elapsed whole
\* seconds on both sides of the five-minute mark, commit counts
FixCounts == {0, 5}

ElapsedSeconds == {0, 200, 299, 300, 301, 600}

Commits == 0..MaxCommits

ScoreArgs ==
    [total_fixes : FixCounts, successful_fixes : FixCounts,
     elapsed_seconds : ElapsedSeconds, total_commits : Commits]

NoScoreArgs ==
    [total_fixes |-> 0, successful_fixes |-> 0, elapsed_seconds |-> 0,
     total_commits |-> 0]

NotScored ==
    [outcome |-> "not_called", base_score |-> 0, speed_bonus |-> 0,
     efficiency_penalty |-> 0, final_score |-> 0]

ScrIdle ==
    /\ score_args = NoScoreArgs
    /\ score = NotScored


\* ------------------------------------------------ config.build_branch_name
\* a name is the sequence of its characters: a lowercase letter, a digit, a
\* space, another whitespace character (tab) and a punctuation mark
NameChars == {"a", "7", " ", "tab", "-"}

Whitespace == {" ", "tab"}

\* the characters of the class [A-Z0-9_] that names over NameChars can yield
BranchChars == {"A", "7", "_"}

RECURSIVE lstrip(_)
lstrip(s) ==
    IF s # << >> /\ Head(s) \in Whitespace THEN lstrip(Tail(s)) ELSE s

RECURSIVE rstrip(_)
rstrip(s) ==
    IF s # << >> /\ s[Len(s)] \in Whitespace
    THEN rstrip(SubSeq(s, 1, Len(s) - 1))
    ELSE s

\* seeded fault: the name is not trimmed
strip_none(s) == s

\* str.strip()
strip(s) == rstrip(lstrip(s))

\* str.replace(old, new) for one-character old and new
replace(s, old, new) == [i \in 1..Len(s) |-> IF s[i] = old THEN new ELSE s[i]]

\* re.sub(r'[^A-Z0-9_]', '', s)
re_sub(s) == SelectSeq(s, LAMBDA c : c \in BranchChars)

build_branch_name(team_name, leader_name) ==
    LET team == re_sub(replace(strip(upper(team_name)), " ", "_"))
        leader == re_sub(replace(strip(upper(leader_name)), " ", "_"))
    IN  team \o << "_" >> \o leader \o << "_", "A", "I", "_", "F", "i", "x" >>

Names == SeqsUpTo(NameChars, MaxNameLen)

BranchArgs == [team_name : Names, leader_name : Names]

NoBranchArgs == [team_name |-> << >>, leader_name |-> << >>]

NotBuilt == [outcome |-> "not_called", name |-> << >>]

BrnIdle ==
    /\ branch_args = NoBranchArgs
    /\ branch = NotBuilt

\* ------------------------------------------- fix_generator.call_llm, stepwise
\* values of config.LLM_PROVIDER: the four providers and any other string
ProviderSettings == Range(FallbackOrder) \cup {"other"}

\* what one provider function (call_groq, call_google, ...) can do: the API
\* answers with a text, or the client raises (rate limit, network error,
\* rejected credentials) and the function returns "[LLM_ERROR] ..."
ProviderOutcomes == {"answer", "rate_limit", "network", "auth"}

\* the texts a provider can answer with
Answers ==
    { Response("array", << Fix("a.py", 1, "SYNTAX", "d1", << COMMIT_PREFIX, "Fix" >>) >>),
      Response("prose", << >>) }

\* the return value of a provider function
provider_returns(outcome, answer) ==
    IF outcome = "answer" THEN answer ELSE Response("llm_error", << >>)

\* result.startswith("[LLM_ERROR]")
is_llm_error(result) == result.form = "llm_error"

NotCalled == [outcome |-> "not_called", text |-> NoResponse, fixes |-> << >>]

LlmIdle ==
    /\ llm_calls = << >>
    /\ llm_result = NotCalled

\* --------------------------- fix_generator: scope analysis and E741 rename
\* a line of a Python file, by what the scope analysis reads of it: whether
\* it is blank, starts (after its indentation) with "def " / "async def ",
\* its indentation, and whether it holds the flagged identifier as a word
Indents == 0..2

FileLines ==
    { [kind |-> "blank", indent |-> 0, uses |-> FALSE] }
      \cup [kind : {"def", "code"}, indent : Indents, uses : BOOLEAN]

\* the lines that are not blank, in order
Solid(lines) == SelectSeq(lines, LAMBDA l : l.kind # "blank")

\* the indentation of a file Python accepts: the first statement is not
\* indented, the body of a def is one level deeper than the def, and any
\* other statement is at the level of the one before it or shallower
WellIndented(lines) ==
    LET st == Solid(lines) IN
    /\ st # << >>
    /\ st[1].indent = 0
    /\ st[Len(st)].kind # "def"
    /\ \A i \in 1..(Len(st) - 1) :
         IF st[i].kind = "def"
         THEN st[i + 1].indent = st[i].indent + 1
         ELSE st[i + 1].indent <= st[i].indent

Files == { f \in SeqsUpTo(FileLines, MaxFileLines) : WellIndented(f) }

\* _find_function_scope(lines, target_idx), indices 0-based: lines[i] is
\* lines[i + 1] here
find_function_scope(lines, target_idx) ==
    LET defs == { i \in 0..target_idx : lines[i + 1].kind = "def" }
        scope_start == IF defs = {} THEN 0
                       ELSE CHOOSE i \in defs : \A j \in defs : j <= i
        indent_level == IF defs = {} THEN -1
                        ELSE lines[scope_start + 1].indent
        closing == { i \in (scope_start + 1)..(Len(lines) - 1) :
                       /\ lines[i + 1].kind # "blank"
                       /\ lines[i + 1].indent <= indent_level }
        scope_end == IF indent_level >= 0 /\ closing # {}
                     THEN CHOOSE i \in closing : \A j \in closing : i <= j
                     ELSE Len(lines)
    IN  [scope_start |-> scope_start, scope_end |-> scope_end]

\* _fix_e741_scope_aware: the line numbers (1-based) its fixes carry
rename_lines(lines, line_number, msg) ==
    IF ~e741_match(msg) \/ lines = << >> THEN {}
    ELSE LET sc == find_function_scope(lines, line_number - 1)
         IN  { i + 1 : i \in { k \in sc.scope_start..(sc.scope_end - 1) :
                                 lines[k + 1].uses } }

E741Messages ==
    { << "E741", "Ambiguous variable name:", "l" >>,
      << "E741", "ambiguous variable name:", "l" >> }

\* the file and the E741 error of one rename: the flagged line exists and
\* holds the identifier
ScopeArgs ==
    { [lines |-> f, line_number |-> n, msg |-> m] :
        f \in Files, n \in 1..MaxFileLines, m \in E741Messages }

NoScopeArgs == [lines |-> << >>, line_number |-> 0, msg |-> << >>]

NoScope ==
    [outcome |-> "not_called", scope_start |-> 0, scope_end |-> 0,
     fix_lines |-> {}]

ScpIdle ==
    /\ scope_args = NoScopeArgs
    /\ scope = NoScope

ExtIdle ==
    /\ BrnIdle
    /\ LlmIdle
    /\ ScpIdle

\* save_results: elapsed = time.time() - start_time, in whole seconds on
\* both sides of the speed-bonus threshold
SaveElapsed == {200, 600}

\* ------------------------------------------------------------------- Init
Init ==
    /\ entry \in {"run_agent", "run_agent_v2"}
    /\ \E c \in Configs : LLM_PROVIDER = c[1] /\ API_KEYS = c[2]
    /\ max_iterations \in MaxIterationsChoices
    /\ pc = IF entry = "run_agent" THEN "analyze_logs" ELSE "v2_for"
    /\ error_logs = << >>
    /\ current_iteration = 1
    /\ final_fixes = << >>
    /\ fix_results = << >>
    /\ all_passed = FALSE
    /\ total_errors_detected = 0
    /\ error_count_history = << >>
    /\ stagnant_count = 0
    /\ results = << >>
    /\ iteration = 0
    /\ fixes = << >>
    /\ all_fix_records = << >>
    /\ run_result = << >>
    /\ engine_result = [outcome |-> "not_called", fixes |-> << >>]
    /\ engine_calls = << >>
    /\ applier_calls = << >>
    /\ ClsIdle
    /\ GenIdle
    /\ SbxIdle
    /\ ApiIdle
    /\ AggIdle
    /\ PrsIdle
    /\ ScrIdle
    /\ ExtIdle

\* an exception leaves the node; nothing in run_agent / run_agent_v2 catches it
Raise ==
    /\ pc' = "raised"
    /\ UNCHANGED << unit_vars, config_vars, graph_vars, v2_vars, error_logs, all_passed,
                    total_errors_detected, error_count_history, stagnant_count >>

\* ------------------------------------------------- run_agent: graph nodes
AnalyzeLogs ==
    /\ pc = "analyze_logs"
    /\ \/ /\ Raise
          /\ UNCHANGED << engine_result, engine_calls, applier_calls >>
       \/ \E errors \in ErrorLists :
            LET history == Append(error_count_history, Len(errors)) IN
            /\ error_logs' = errors
            /\ total_errors_detected' = Max(total_errors_detected, Len(errors))
            /\ error_count_history' = history
            /\ stagnant_count' = stagnation_check(history, stagnant_count)
            /\ pc' = "generate_fix"
            /\ UNCHANGED << unit_vars, config_vars, graph_vars, v2_vars, all_passed,
                            engine_result, engine_calls, applier_calls >>

GenerateFix ==
    /\ pc = "generate_fix"
    /\ IF nothing_to_fix(error_logs)
       THEN /\ all_passed' = TRUE
            /\ pc' = "apply_fix"
            /\ engine_result' = [outcome |-> "not_called", fixes |-> << >>]
            /\ UNCHANGED << unit_vars, config_vars, graph_vars, v2_vars, error_logs,
                            total_errors_detected, error_count_history,
                            stagnant_count, engine_calls, applier_calls >>
       ELSE /\ engine_calls' = Append(engine_calls, Len(error_count_history))
            /\ UNCHANGED applier_calls
            /\ \/ /\ Raise
                  /\ engine_result' = [outcome |-> "raised", fixes |-> << >>]
               \/ /\ ~call_llm_raises(LLM_PROVIDER, API_KEYS)
                  /\ \E fl \in FixLists(Len(final_fixes)) :
                       /\ final_fixes' = final_fixes \o fl
                       /\ engine_result' = [outcome |-> "returned", fixes |-> fl]
                  /\ pc' = "apply_fix"
                  /\ UNCHANGED << unit_vars, config_vars, v2_vars, current_iteration,
                                  fix_results, results, error_logs, all_passed,
                                  total_errors_detected, error_count_history,
                                  stagnant_count >>

ApplyFix ==
    /\ pc = "apply_fix"
    /\ LET new == new_fixes(final_fixes, fix_results) IN
       IF new = << >>
       THEN /\ pc' = "verify_fix"
            /\ UNCHANGED << unit_vars, config_vars, graph_vars, v2_vars, error_logs,
                            all_passed, total_errors_detected,
                            error_count_history, stagnant_count,
                            engine_result, engine_calls, applier_calls >>
       ELSE /\ applier_calls' =
                   Append(applier_calls, << Len(error_count_history), new >>)
            /\ UNCHANGED << engine_result, engine_calls >>
            /\ \/ Raise
               \/ \E success \in [1..Len(new) -> BOOLEAN] :
                    /\ fix_results' = fix_results \o
                           result_entries(apply_all_fixes(new, success))
                    /\ pc' = "verify_fix"
                    /\ UNCHANGED << unit_vars, config_vars, v2_vars, current_iteration,
                                    final_fixes, results, error_logs,
                                    all_passed, total_errors_detected,
                                    error_count_history, stagnant_count >>

VerifyFix ==
    /\ pc = "verify_fix"
    /\ current_iteration' = verify_fix(current_iteration)
    /\ pc' = should_continue(
                [all_passed |-> all_passed,
                 current_iteration |-> current_iteration',
                 max_iterations |-> max_iterations,
                 stagnant_count |-> stagnant_count])
    /\ UNCHANGED << unit_vars, config_vars, v2_vars, final_fixes, fix_results, results,
                    error_logs, all_passed, total_errors_detected,
                    error_count_history, stagnant_count, engine_result,
                    engine_calls, applier_calls >>

SaveResults ==
    /\ pc = "save_results"
    /\ \E elapsed \in SaveElapsed :
         LET total_fixes == Len(fix_results)
             successful_fixes ==
                 Cardinality({ i \in 1..Len(fix_results) :
                                 fix_results[i].status = "fixed" })
         IN  results' =
               << [total_time_seconds |-> elapsed,
                   iterations_used |-> iterations_used(current_iteration),
                   max_iterations |-> max_iterations,
                   all_tests_passed |-> all_passed,
                   ci_status |-> IF all_passed THEN "PASSED" ELSE "FAILED",
                   total_failures_detected |-> total_errors_detected,
                   total_fixes_applied |-> successful_fixes,
                   total_fixes_failed |-> total_fixes - successful_fixes,
                   score |-> calculate_score(
                                 total_fixes, successful_fixes, elapsed,
                                 commit_count(current_iteration,
                                              successful_fixes)),
                   fixes |-> fix_results] >>
    /\ pc' = "END"
    /\ UNCHANGED << unit_vars, config_vars, v2_vars, current_iteration, final_fixes,
                    fix_results, error_logs, all_passed,
                    total_errors_detected, error_count_history,
                    stagnant_count, engine_result, engine_calls,
                    applier_calls >>

\* ------------------------------------------------------------ v2_adapter.py
\* run_agent_v2: stagnation update, run only for a pass with errors
v2_stagnation_check(history, stagnant) ==
    IF Len(history) >= 2
    THEN IF history[Len(history)] >= history[Len(history) - 1]
         THEN stagnant + 1
         ELSE 0
    ELSE stagnant

\* seeded fault: an empty result breaks out of the loop instead of continuing
v2_no_fixes_break(fl) == IF fl = << >> THEN "v2_return" ELSE "v2_apply"

\* run_agent_v2: where the loop goes when generate_fixes returned nothing
v2_no_fixes_target(fl) == IF fl = << >> THEN "v2_for" ELSE "v2_apply"

\* run_agent_v2: the FixRecord built from each (fix, success) pair
FixRecords(pairs) ==
    [i \in 1..Len(pairs) |->
        [fix |-> pairs[i][1],
         status |-> IF pairs[i][2] THEN "fixed" ELSE "failed"]]

\* for iteration in range(1, max_iterations + 1)
V2For ==
    /\ pc = "v2_for"
    /\ IF iteration < max_iterations
       THEN iteration' = iteration + 1 /\ pc' = "v2_analyze"
       ELSE iteration' = iteration /\ pc' = "v2_return"
    /\ UNCHANGED << unit_vars, config_vars, graph_vars, fixes, all_fix_records,
                    run_result, error_logs, all_passed,
                    total_errors_detected, error_count_history,
                    stagnant_count, engine_result, engine_calls,
                    applier_calls >>

\* step 1 (detect errors) and the stagnation check
V2Analyze ==
    /\ pc = "v2_analyze"
    /\ UNCHANGED << engine_result, engine_calls, applier_calls >>
    /\ \/ Raise
       \/ \E errors \in ErrorLists :
            LET history == Append(error_count_history, Len(errors)) IN
            /\ error_logs' = errors
            /\ error_count_history' = history
            /\ total_errors_detected' = Max(total_errors_detected, Len(errors))
            /\ IF Len(errors) = 0
               THEN /\ all_passed' = TRUE
                    /\ stagnant_count' = stagnant_count
                    /\ pc' = "v2_return"
               ELSE /\ all_passed' = all_passed
                    /\ stagnant_count' =
                           v2_stagnation_check(history, stagnant_count)
                    /\ pc' = IF stagnant_count' >= 2
                             THEN "v2_return" ELSE "v2_generate"
            /\ UNCHANGED << unit_vars, config_vars, graph_vars, v2_vars >>

\* step 2 (generate fixes)
V2Generate ==
    /\ pc = "v2_generate"
    /\ engine_calls' = Append(engine_calls, Len(error_count_history))
    /\ UNCHANGED applier_calls
    /\ \/ /\ Raise
          /\ engine_result' = [outcome |-> "raised", fixes |-> << >>]
       \/ /\ ~call_llm_raises(LLM_PROVIDER, API_KEYS)
          /\ \E fl \in FixLists(Len(all_fix_records)) :
               /\ fixes' = fl
               /\ engine_result' = [outcome |-> "returned", fixes |-> fl]
               /\ pc' = v2_no_fixes_target(fl)
          /\ UNCHANGED << unit_vars, config_vars, graph_vars, iteration, all_fix_records,
                          run_result, error_logs, all_passed,
                          total_errors_detected, error_count_history,
                          stagnant_count >>

\* step 3 (apply fixes)
V2Apply ==
    /\ pc = "v2_apply"
    /\ applier_calls' =
           Append(applier_calls, << Len(error_count_history), fixes >>)
    /\ UNCHANGED << engine_result, engine_calls >>
    /\ \/ Raise
       \/ \E success \in [1..Len(fixes) -> BOOLEAN] :
            /\ all_fix_records' = all_fix_records \o
                   FixRecords(apply_all_fixes(fixes, success))
            /\ pc' = "v2_for"
            /\ UNCHANGED << unit_vars, config_vars, graph_vars, iteration, fixes,
                            run_result, error_logs, all_passed,
                            total_errors_detected, error_count_history,
                            stagnant_count >>

\* return AgentRunResult(...)
V2Return ==
    /\ pc = "v2_return"
    /\ run_result' =
         << [iterations_used |-> iteration,
             total_errors_detected |-> total_errors_detected,
             fixes |-> all_fix_records,
             all_passed |-> all_passed,
             error_count_history |-> error_count_history,
             stagnation_detected |-> (stagnant_count >= 2)] >>
    /\ pc' = "END"
    /\ UNCHANGED << unit_vars, config_vars, graph_vars, iteration, fixes,
                    all_fix_records, error_logs, all_passed,
                    total_errors_detected, error_count_history,
                    stagnant_count, engine_result, engine_calls,
                    applier_calls >>

Next ==
    \/ AnalyzeLogs
    \/ GenerateFix
    \/ ApplyFix
    \/ VerifyFix
    \/ SaveResults
    \/ V2For
    \/ V2Analyze
    \/ V2Generate
    \/ V2Apply
    \/ V2Return

Spec == Init /\ [][Next]_vars

\* ------------------------------------------- classify_bug_type on its own
\* the repair loop has not been entered
LoopIdle ==
    /\ entry = "none"
    /\ max_iterations = 0
    /\ pc = "idle"
    /\ error_logs = << >>
    /\ current_iteration = 1
    /\ final_fixes = << >>
    /\ fix_results = << >>
    /\ all_passed = FALSE
    /\ total_errors_detected = 0
    /\ error_count_history = << >>
    /\ stagnant_count = 0
    /\ results = << >>
    /\ iteration = 0
    /\ fixes = << >>
    /\ all_fix_records = << >>
    /\ run_result = << >>
    /\ engine_result = [outcome |-> "not_called", fixes |-> << >>]
    /\ engine_calls = << >>
    /\ applier_calls = << >>

ClsInit ==
    /\ raw_finding \in RawFindings
    /\ classified = NotClassified
    /\ LLM_PROVIDER = "groq"
    /\ API_KEYS = {}
    /\ LoopIdle
    /\ ExtIdle
    /\ GenIdle
    /\ SbxIdle
    /\ ApiIdle
    /\ AggIdle
    /\ PrsIdle
    /\ ScrIdle

\* one call classify_bug_type(error)
Classify ==
    /\ classified.outcome = "not_called"
    /\ classified' =
           IF classify_bug_type_raises(raw_finding)
           THEN [outcome |-> "raised", bug_type |-> ""]
           ELSE [outcome |-> "returned",
                 bug_type |-> classify_bug_type(raw_finding)]
    /\ UNCHANGED << raw_finding, gen_vars, sbx_vars, api_vars, loop_vars, ext_vars, aux_vars >>

ClsNext == Classify

SpecClassifier == ClsInit /\ [][ClsNext]_vars

\* ---------------------------------------------- generate_fixes on its own
GenInit ==
    /\ errors_arg \in GenErrorLists
    /\ \E c \in Configs : LLM_PROVIDER = c[1] /\ API_KEYS = c[2]
    /\ raw_response = NoResponse
    /\ rule_calls = << >>
    /\ ruff_fix = RuffNotRun
    /\ gen_result = NotGenerated
    /\ LoopIdle
    /\ ExtIdle
    /\ ClsIdle
    /\ SbxIdle
    /\ ApiIdle
    /\ AggIdle
    /\ PrsIdle
    /\ ScrIdle

Returned(fl) == [outcome |-> "returned", fixes |-> fl]

Raised == [outcome |-> "raised", fixes |-> << >>]

\* one call generate_fixes(errors_arg, repo_path)
GenerateFixes ==
    /\ gen_result.outcome = "not_called"
    /\ UNCHANGED << errors_arg, cls_vars, sbx_vars, api_vars, loop_vars, ext_vars, aux_vars >>
    /\ IF errors_arg = << >>
       THEN /\ gen_result' = Returned(<< >>)
            /\ UNCHANGED << raw_response, rule_calls, ruff_fix >>
       ELSE IF call_llm_raises(LLM_PROVIDER, API_KEYS)
       THEN /\ gen_result' = Raised
            /\ UNCHANGED << raw_response, rule_calls, ruff_fix >>
       ELSE \E raw \in Responses :
              LET elements == parse_llm_response(raw)
                  validated == llm_fixes(elements)
              IN
              /\ raw_response' = raw
              /\ IF llm_fixes_raise(elements)
                 THEN /\ gen_result' = Raised
                      /\ UNCHANGED << rule_calls, ruff_fix >>
                 ELSE LET offered == uncovered(errors_arg, validated) IN
                      \E rc \in RuleChoices(offered) :
                        LET rule_fixes ==
                                llm_fixes(Flatten(rc))
                            deduped == deduplicate(validated \o rule_fixes)
                        IN
                        /\ rule_calls' =
                               [i \in 1..Len(offered) |->
                                   [err |-> offered[i], fixes |-> rc[i]]]
                        /\ IF deduped = << >> /\ repo_path # ""
                           THEN IF linting(errors_arg) = << >>
                                THEN /\ ruff_fix' = RuffNotRun
                                     /\ gen_result' = Returned(<< >>)
                                ELSE \E ruff \in RuffOutcomes :
                                       /\ ruff_fix' = ruff
                                       /\ gen_result' = Returned(
                                              autofix_fixes(errors_arg, ruff))
                           ELSE /\ ruff_fix' = RuffNotRun
                                /\ gen_result' = Returned(deduped)

GenNext == GenerateFixes

SpecEngine == GenInit /\ [][GenNext]_vars

\* ---------------------------------------------- the Analyzing step on its own
SbxInit ==
    /\ tools \in ToolOutcomes
    /\ sbx_pc = "run_sandbox"
    /\ errors_file \in {NoFile, << FindingsOf("stale", 1) >>}
    /\ analysis = NotAnalyzed
    /\ LLM_PROVIDER = "groq"
    /\ API_KEYS = {}
    /\ LoopIdle
    /\ ExtIdle
    /\ ClsIdle
    /\ GenIdle
    /\ ApiIdle
    /\ AggIdle
    /\ PrsIdle
    /\ ScrIdle

sbx_frame == << tools, cls_vars, gen_vars, api_vars, loop_vars, ext_vars, aux_vars >>

\* run_sandbox: remove the stale errors.json, run the container; every
\* exception of the subprocess is caught and falls back to local analysis
RunSandbox ==
    /\ sbx_pc = "run_sandbox"
    /\ analysis' = [outcome |-> "running", errors |-> << >>]
    /\ IF tools.docker.outcome = "wrote"
       THEN /\ errors_file' = << FindingsOf("docker", tools.docker.findings) >>
            /\ sbx_pc' = "parse_errors_json"
       ELSE /\ errors_file' = NoFile
            /\ sbx_pc' = "_auto_fix_with_ruff"
    /\ UNCHANGED sbx_frame

\* _auto_fix_with_ruff: except Exception, whatever the subprocess did
AutoFixWithRuff ==
    /\ sbx_pc = "_auto_fix_with_ruff"
    /\ sbx_pc' = "ruff_check"
    /\ UNCHANGED << errors_file, analysis, sbx_frame >>

\* run_local_analysis: one guarded tool run (ruff check, then pytest)
LocalTool(tool, at, then) ==
    /\ sbx_pc = at
    /\ IF tools[tool].outcome = "ran" \/ caught(tools[tool].outcome)
       THEN /\ analysis' =
                   [analysis EXCEPT
                       !.errors = @ \o local_findings(tool, tools[tool])]
            /\ sbx_pc' = then
       ELSE /\ analysis' = [analysis EXCEPT !.outcome = "raised"]
            /\ sbx_pc' = "raised"
    /\ UNCHANGED << errors_file, sbx_frame >>

RuffCheck == LocalTool("ruff", "ruff_check", "pytest")

Pytest == LocalTool("pytest", "pytest", "write_errors")

\* run_local_analysis: json.dump(errors, f)
WriteErrors ==
    /\ sbx_pc = "write_errors"
    /\ errors_file' = << analysis.errors >>
    /\ sbx_pc' = "parse_errors_json"
    /\ UNCHANGED << analysis, sbx_frame >>

\* analyze_logs: errors = parse_errors_json(errors_json_path)
ParseErrors ==
    /\ sbx_pc = "parse_errors_json"
    /\ analysis' =
           [outcome |-> "returned",
            errors |-> IF errors_file = NoFile THEN << >> ELSE errors_file[1]]
    /\ sbx_pc' = "generate_fix"
    /\ UNCHANGED << errors_file, sbx_frame >>

SbxNext ==
    \/ RunSandbox
    \/ AutoFixWithRuff
    \/ RuffCheck
    \/ Pytest
    \/ WriteErrors
    \/ ParseErrors

SpecAnalysis == SbxInit /\ [][SbxNext]_vars

\* --------------------------------------- concurrent runs through api_server
ApiInit ==
    /\ ApiIdle
    /\ AggIdle
    /\ PrsIdle
    /\ ScrIdle
    /\ LLM_PROVIDER = "groq"
    /\ API_KEYS = {}
    /\ LoopIdle
    /\ ExtIdle
    /\ ClsIdle
    /\ GenIdle
    /\ SbxIdle

api_frame ==
    << http_response, cls_vars, gen_vars, sbx_vars, loop_vars, ext_vars,
       aux_vars >>

\* where a running thread is in its own code
At(r, where) == threads[r].pc = where

Goto(r, where) == threads' = [threads EXCEPT ![r].pc = where]

\* the except clause of _run: the run is marked failed
Fail(r) ==
    /\ runs' = [runs EXCEPT ![r].status = "failed"]
    /\ Goto(r, "done")

\* POST /api/run-agent: trigger_agent records the run and starts its thread
TriggerAgent(r, p) ==
    /\ runs[r].status = "none"
    /\ runs' = [runs EXCEPT ![r] = [status |-> "running", repo_path |-> p,
                                    results |-> NoFile]]
    /\ threads' = [threads EXCEPT ![r].pc = "exists"]
    /\ UNCHANGED << disk, api_frame >>

\* run_sandbox: if os.path.exists(errors_output)
StaleExists(r) ==
    /\ At(r, "exists")
    /\ Goto(r, IF disk[runs[r].repo_path].errors_json # NoFile
               THEN "remove" ELSE "analysis")
    /\ UNCHANGED << runs, disk, api_frame >>

\* run_sandbox: os.remove(errors_output), outside the try: FileNotFoundError
\* when the file is gone by now
StaleRemove(r) ==
    /\ At(r, "remove")
    /\ IF disk[runs[r].repo_path].errors_json = NoFile
       THEN Fail(r) /\ UNCHANGED disk
       ELSE /\ disk' = [disk EXCEPT ![runs[r].repo_path].errors_json = NoFile]
            /\ Goto(r, "analysis")
            /\ UNCHANGED runs
    /\ UNCHANGED api_frame

\* run_sandbox: the container, or run_local_analysis, writes errors.json
Analysis(r) ==
    /\ At(r, "analysis")
    /\ \E n \in 0..MaxErrors :
           disk' = [disk EXCEPT ![runs[r].repo_path].errors_json = File(r, n)]
    /\ Goto(r, "parse_errors_json")
    /\ UNCHANGED << runs, api_frame >>

\* analyze_logs: parse_errors_json reads errors.json ([] when it is missing)
ReadErrors(r) ==
    /\ At(r, "parse_errors_json")
    /\ threads' =
           [threads EXCEPT
               ![r].error_logs =
                   IF disk[runs[r].repo_path].errors_json = NoFile
                   THEN File(r, 0)
                   ELSE disk[runs[r].repo_path].errors_json,
               ![r].pc = "save_results"]
    /\ UNCHANGED << runs, disk, api_frame >>

\* save_results: writes <repo_path>/results.json from the run's own state
WriteResults(r) ==
    /\ At(r, "save_results")
    /\ disk' = [disk EXCEPT ![runs[r].repo_path].results_json =
                   File(r, threads[r].error_logs[1].errors)]
    /\ Goto(r, "read_results")
    /\ UNCHANGED << runs, api_frame >>

\* run_agent: reads results.json back and returns it
ReadResults(r) ==
    /\ At(r, "read_results")
    /\ threads' =
           [threads EXCEPT
               ![r].results = disk[runs[r].repo_path].results_json,
               ![r].pc = "status"]
    /\ UNCHANGED << runs, disk, api_frame >>

\* _run: runs[run_id]["status"] = "completed"
StoreStatus(r) ==
    /\ At(r, "status")
    /\ runs' = [runs EXCEPT ![r].status = "completed"]
    /\ Goto(r, "results")
    /\ UNCHANGED << disk, api_frame >>

\* _run: runs[run_id]["results"] = results
StoreResults(r) ==
    /\ At(r, "results")
    /\ runs' = [runs EXCEPT ![r].results = threads[r].results]
    /\ Goto(r, "done")
    /\ UNCHANGED << disk, api_frame >>

\* GET /api/results/<run_id>: get_results
GetResults(r) ==
    /\ http_response' =
           CASE runs[r].status = "none" ->
                    [run |-> r, code |-> 404, body |-> NoFile]
             [] runs[r].status = "running" ->
                    [run |-> r, code |-> 202, body |-> NoFile]
             [] runs[r].status = "failed" ->
                    [run |-> r, code |-> 500, body |-> NoFile]
             [] OTHER ->
                    [run |-> r, code |-> 200, body |-> runs[r].results]
    /\ UNCHANGED << runs, threads, disk, cls_vars, gen_vars, sbx_vars,
                    loop_vars, ext_vars, aux_vars >>

ApiNext ==
    \E r \in RunIds :
        \/ \E p \in Paths : TriggerAgent(r, p)
        \/ StaleExists(r)
        \/ StaleRemove(r)
        \/ Analysis(r)
        \/ ReadErrors(r)
        \/ WriteResults(r)
        \/ ReadResults(r)
        \/ StoreStatus(r)
        \/ StoreResults(r)
        \/ GetResults(r)

SpecTrigger == ApiInit /\ [][ApiNext]_vars

\* ----------------------------------------------- parse_logs.main on its own
AggInit ==
    /\ tool_outputs \in
           [ruff : RuffOutputs, mypy : MypyOutputs, pytest : PytestOutputs]
    /\ agg_result = NotAggregated
    /\ agg_again = NotAgain
    /\ LLM_PROVIDER = "groq"
    /\ API_KEYS = {}
    /\ LoopIdle
    /\ ExtIdle
    /\ ClsIdle
    /\ GenIdle
    /\ SbxIdle
    /\ ApiIdle
    /\ PrsIdle
    /\ ScrIdle

agg_frame ==
    << tool_outputs, cls_vars, gen_vars, sbx_vars, api_vars, prs_vars,
       scr_vars, loop_vars, ext_vars >>

\* main raises when one of the parsers does: nothing catches it
main_raises ==
    \/ parse_ruff_raises(tool_outputs.ruff)
    \/ parse_pytest_raises(tool_outputs.pytest)

\* one run of main(): parse, deduplicate, validate, sort, write
Main ==
    /\ agg_result.outcome = "not_called"
    /\ IF main_raises
       THEN agg_result' = [NotAggregated EXCEPT !.outcome = "raised"]
       ELSE LET ruff == parse_ruff(tool_outputs.ruff)
                mypy == parse_mypy(tool_outputs.mypy)
                pytest == parse_pytest(tool_outputs.pytest)
                unique_errors == parse_logs_deduplicate(ruff \o mypy \o pytest)
                valid_errors == validate_output(unique_errors)
            IN  \E sorted \in sort_results(valid_errors) :
                    agg_result' =
                        [outcome |-> "returned", ruff |-> ruff, mypy |-> mypy,
                         pytest |-> pytest, unique_errors |-> unique_errors,
                         valid_errors |-> valid_errors, output |-> sorted]
    /\ UNCHANGED << agg_again, agg_frame >>

\* a second run of main() on the same three files
MainAgain ==
    /\ agg_result.outcome # "not_called"
    /\ agg_again.outcome = "not_called"
    /\ IF main_raises
       THEN agg_again' = [outcome |-> "raised", output |-> << >>]
       ELSE \E sorted \in sort_results(validate_output(
                    parse_logs_deduplicate(
                        parse_ruff(tool_outputs.ruff)
                            \o parse_mypy(tool_outputs.mypy)
                            \o parse_pytest(tool_outputs.pytest)))) :
                agg_again' = [outcome |-> "returned", output |-> sorted]
    /\ UNCHANGED << agg_result, agg_frame >>

AggNext == Main \/ MainAgain

SpecAggregate == AggInit /\ [][AggNext]_vars

\* ----------------------------------------- parse_errors_json on its own
PrsInit ==
    /\ errors_doc \in Documents
    /\ parse_result = NotParsed
    /\ LLM_PROVIDER = "groq"
    /\ API_KEYS = {}
    /\ LoopIdle
    /\ ExtIdle
    /\ ClsIdle
    /\ GenIdle
    /\ SbxIdle
    /\ ApiIdle
    /\ AggIdle
    /\ ScrIdle

\* one call parse_errors_json(errors_json_path)
ParseErrorsJson ==
    /\ parse_result.outcome = "not_called"
    /\ parse_result' =
           IF parse_errors_json_raises(errors_doc)
           THEN [outcome |-> "raised", errors |-> << >>]
           ELSE [outcome |-> "returned",
                 errors |-> parse_errors_json(errors_doc)]
    /\ UNCHANGED << errors_doc, cls_vars, gen_vars, sbx_vars, api_vars,
                    agg_vars, scr_vars, loop_vars, ext_vars >>

PrsNext == ParseErrorsJson

SpecParser == PrsInit /\ [][PrsNext]_vars

\* ------------------------------------------- calculate_score on its own
ScrInit ==
    /\ score_args \in ScoreArgs
    /\ score = NotScored
    /\ LLM_PROVIDER = "groq"
    /\ API_KEYS = {}
    /\ LoopIdle
    /\ ExtIdle
    /\ ClsIdle
    /\ GenIdle
    /\ SbxIdle
    /\ ApiIdle
    /\ AggIdle
    /\ PrsIdle

\* one call calculate_score(total_fixes, successful_fixes, elapsed, commits)
CalculateScore ==
    /\ score.outcome = "not_called"
    /\ LET s == calculate_score(score_args.total_fixes,
                                score_args.successful_fixes,
                                score_args.elapsed_seconds,
                                score_args.total_commits)
       IN  score' = [outcome |-> "returned", base_score |-> s.base_score,
                     speed_bonus |-> s.speed_bonus,
                     efficiency_penalty |-> s.efficiency_penalty,
                     final_score |-> s.final_score]
    /\ UNCHANGED << score_args, cls_vars, gen_vars, sbx_vars, api_vars,
                    agg_vars, prs_vars, loop_vars, ext_vars >>

ScrNext == CalculateScore

SpecScore == ScrInit /\ [][ScrNext]_vars

\* ------------------------------------------ build_branch_name on its own
BrnInit ==
    /\ branch_args \in BranchArgs
    /\ branch = NotBuilt
    /\ LLM_PROVIDER = "groq"
    /\ API_KEYS = {}
    /\ LoopIdle
    /\ ClsIdle
    /\ GenIdle
    /\ SbxIdle
    /\ ApiIdle
    /\ AggIdle
    /\ PrsIdle
    /\ ScrIdle
    /\ LlmIdle
    /\ ScpIdle

\* one call build_branch_name(team_name, leader_name)
BuildBranchName ==
    /\ branch.outcome = "not_called"
    /\ branch' = [outcome |-> "returned",
                  name |-> build_branch_name(branch_args.team_name,
                                             branch_args.leader_name)]
    /\ UNCHANGED << branch_args, cls_vars, gen_vars, sbx_vars, api_vars,
                    aux_vars, llm_vars, scp_vars, loop_vars >>

BrnNext == BuildBranchName

SpecBranch == BrnInit /\ [][BrnNext]_vars

\* --------------------------------------------------- call_llm on its own
LlmInit ==
    /\ LLM_PROVIDER \in ProviderSettings
    /\ API_KEYS \in SUBSET Range(FallbackOrder)
    /\ llm_calls = << >>
    /\ llm_result = NotCalled
    /\ LoopIdle
    /\ ClsIdle
    /\ GenIdle
    /\ SbxIdle
    /\ ApiIdle
    /\ AggIdle
    /\ PrsIdle
    /\ ScrIdle
    /\ BrnIdle
    /\ ScpIdle

llm_frame ==
    << cls_vars, gen_vars, sbx_vars, api_vars, aux_vars, brn_vars, scp_vars,
       loop_vars >>

\* call_llm up to its loop: the provider list is built, or RuntimeError
CallLlm ==
    /\ llm_result.outcome = "not_called"
    /\ llm_result' =
           [llm_result EXCEPT !.outcome =
               IF call_llm_raises(LLM_PROVIDER, API_KEYS)
               THEN "raised" ELSE "trying"]
    /\ UNCHANGED << llm_calls, llm_frame >>

\* one turn of call_llm's loop: result = fn(system_prompt, user_prompt)
TryProvider ==
    /\ llm_result.outcome = "trying"
    /\ LET list == providers(LLM_PROVIDER, API_KEYS)
           k == Len(llm_calls) + 1
       IN  \E o \in ProviderOutcomes, a \in Answers :
             LET result == provider_returns(o, a) IN
             /\ llm_calls' =
                    Append(llm_calls, [provider |-> list[k], outcome |-> o])
             /\ llm_result' =
                    IF ~is_llm_error(result) \/ k = Len(list)
                    THEN [llm_result EXCEPT !.outcome = "returned",
                                            !.text = result]
                    ELSE llm_result
    /\ UNCHANGED llm_frame

\* generate_fixes: fixes = parse_llm_response(raw_response)
ParseLlmResponse ==
    /\ llm_result.outcome = "returned"
    /\ llm_result' =
           [llm_result EXCEPT !.outcome = "parsed",
                              !.fixes = parse_llm_response(llm_result.text)]
    /\ UNCHANGED << llm_calls, llm_frame >>

LlmNext ==
    \/ CallLlm
    \/ TryProvider
    \/ ParseLlmResponse

SpecProviders == LlmInit /\ [][LlmNext]_vars

\* ------------------------------------- _fix_e741_scope_aware on its own
ScpInit ==
    /\ scope_args \in ScopeArgs
    /\ scope_args.line_number <= Len(scope_args.lines)
    /\ scope_args.lines[scope_args.line_number].uses
    /\ scope = NoScope
    /\ LLM_PROVIDER = "groq"
    /\ API_KEYS = {}
    /\ LoopIdle
    /\ ClsIdle
    /\ GenIdle
    /\ SbxIdle
    /\ ApiIdle
    /\ AggIdle
    /\ PrsIdle
    /\ ScrIdle
    /\ BrnIdle
    /\ LlmIdle

\* one call _fix_e741_scope_aware(err, repo_path) on a readable file
FixE741ScopeAware ==
    /\ scope.outcome = "not_called"
    /\ LET sc == find_function_scope(scope_args.lines,
                                     scope_args.line_number - 1)
       IN  scope' = [outcome |-> "returned",
                     scope_start |-> sc.scope_start,
                     scope_end |-> sc.scope_end,
                     fix_lines |-> rename_lines(scope_args.lines,
                                                scope_args.line_number,
                                                scope_args.msg)]
    /\ UNCHANGED << scope_args, cls_vars, gen_vars, sbx_vars, api_vars,
                    aux_vars, brn_vars, llm_vars, loop_vars >>

ScpNext == FixE741ScopeAware

SpecScope == ScpInit /\ [][ScpNext]_vars

\* --------------------------------------------------- save_results on its own
\* the error counts of a graph run of n passes that is stopped neither by
\* stagnation nor, unless it ends clean, by a pass without errors
SavedHistory(n, clean) ==
    [i \in 1..n |-> IF clean /\ i = n THEN 0 ELSE IF i % 2 = 1 THEN 2 ELSE 1]

\* the fix records a run can have collected
SavedFixResults ==
    { result_entries(apply_all_fixes(fl, success)) :
        fl \in SeqsUpTo(FixKeys, MaxTotalFixes),
        success \in [1..MaxTotalFixes -> BOOLEAN] }

\* the AgentState in which save_results is entered after n passes of a run
\* with max_iterations = n + 1 (the history variables of Spec are not rebuilt)
SumInit ==
    /\ entry = "run_agent"
    /\ LLM_PROVIDER = "groq"
    /\ API_KEYS = {"groq"}
    /\ pc = "save_results"
    /\ \E n \in 1..MaxSavedPasses, clean \in BOOLEAN :
         /\ max_iterations = n + 1
         /\ current_iteration = n + 1
         /\ error_count_history = SavedHistory(n, clean)
         /\ all_passed = clean
         /\ error_logs = ErrorList(SavedHistory(n, clean)[n])
         /\ total_errors_detected = IF n = 1 /\ clean THEN 0 ELSE 2
         /\ stagnant_count = IF ~clean /\ n > 1 /\ n % 2 = 1 THEN 1 ELSE 0
    /\ fix_results \in SavedFixResults
    /\ final_fixes = [i \in 1..Len(fix_results) |-> fix_results[i].fix]
    /\ results = << >>
    /\ iteration = 0
    /\ fixes = << >>
    /\ all_fix_records = << >>
    /\ run_result = << >>
    /\ engine_result = [outcome |-> "not_called", fixes |-> << >>]
    /\ engine_calls = << >>
    /\ applier_calls = << >>
    /\ ClsIdle
    /\ GenIdle
    /\ SbxIdle
    /\ ApiIdle
    /\ AggIdle
    /\ PrsIdle
    /\ ScrIdle
    /\ ExtIdle

SumNext == SaveResults

SpecSummary == SumInit /\ [][SumNext]_vars

\* ================================================================ claims
\* number of Analyzing passes performed so far
passes == Len(error_count_history)

Terminal == pc \in {"END", "raised"}

IsPrefix(s, t) == Len(s) <= Len(t) /\ SubSeq(t, 1, Len(s)) = s

\* the fixes of a list of fix records, in order
FixesOf(records) == [i \in 1..Len(records) |-> records[i].fix]

StrictlyDecreasing(h) == \A i \in 2..Len(h) : h[i] < h[i - 1]

C2_ExactlyMaxPasses ==
    ( /\ entry = "run_agent"
      /\ pc = "END"
      /\ \A i \in 1..passes : error_count_history[i] # 0
      /\ StrictlyDecreasing(error_count_history) )
    => passes = max_iterations

\* ---------------------------------------------------------------- C3
\* C3: every run terminates, and one that reaches Done has performed at
\* least one and at most max_iterations Analyzing passes.  Termination: a
\* step is possible in every state that is not final, and every step lowers
\* a measure that is never negative.
Rank(p) ==
    CASE p = "generate_fix" -> 5
      [] p = "apply_fix" -> 4
      [] p = "verify_fix" -> 3
      [] p = "analyze_logs" -> 2
      [] p = "save_results" -> 1
      [] p = "v2_generate" -> 5
      [] p = "v2_apply" -> 4
      [] p = "v2_for" -> 3
      [] p = "v2_analyze" -> 2
      [] p = "v2_return" -> 1
      [] OTHER -> 0

Variant == 6 * (max_iterations - passes) + Rank(pc)

RECURSIVE StagnantOf(_)
StagnantOf(h) ==
    IF Len(h) <= 1 THEN 0
    ELSE IF h[Len(h)] < h[Len(h) - 1] THEN 0
    ELSE StagnantOf(SubSeq(h, 1, Len(h) - 1)) + 1

ZeroPass == passes >= 1 /\ Last(error_count_history) = 0

\* C5: a pass with zero errors is the last pass of the run; the run then
\* reaches Done without raising, with all_passed = true, and in that pass
\* neither generate_fixes nor apply_all_fixes is called; on iteration 1 the
\* summary has iterations_used = 1 and no fix records.
C5_ZeroErrors ==
    /\ \A i \in 1..(passes - 1) : error_count_history[i] # 0
    /\ ZeroPass =>
          /\ pc \in {"generate_fix", "apply_fix", "verify_fix", "save_results",
                     "v2_return", "END"}
          /\ pc # "generate_fix" => all_passed
          /\ \A i \in 1..Len(engine_calls) : engine_calls[i] # passes
          /\ \A i \in 1..Len(applier_calls) : applier_calls[i][1] # passes
          /\ (pc = "END" /\ entry = "run_agent") =>
                /\ results[1].all_tests_passed
                /\ passes = 1 =>
                      /\ results[1].iterations_used = 1
                      /\ results[1].fixes = << >>
          /\ (pc = "END" /\ entry = "run_agent_v2") =>
                /\ run_result[1].all_passed
                /\ passes = 1 =>
                      /\ run_result[1].iterations_used = 1
                      /\ run_result[1].fixes = << >>

\* a clean second pass after a first pass whose fix was applied
C5_Witness ==
    /\ entry = "run_agent"
    /\ pc = "END"
    /\ error_count_history = << 1, 0 >>
    /\ Len(fix_results) = 1

\* ---------------------------------------------------------------- C6
\* C6: at Done iterations_used is max(1, current_iteration - 1) and is the
\* number of Analyzing passes performed (the length of error_count_history).
C6_IterationsUsed ==
    /\ (pc = "END" /\ entry = "run_agent") =>
          /\ results[1].iterations_used =
                (IF current_iteration - 1 >= 1 THEN current_iteration - 1 ELSE 1)
          /\ results[1].iterations_used = passes
    /\ (pc = "END" /\ entry = "run_agent_v2") =>
          run_result[1].iterations_used = passes

C6_Witness ==
    /\ entry = "run_agent"
    /\ pc = "END"
    /\ passes = 3
    /\ results[1].iterations_used = 3

\* ---------------------------------------------------------------- C7
\* C7: generate_fixes returning no fix for a non-empty error list, and fixes
\* failing to apply, are normal returns: the step does not raise and the loop
\* goes on to its next step; the run is ended only by all_passed, the
\* iteration bound or stagnation (or by a collaborator raising).
NoFixReturned(r) == r.outcome = "returned" /\ r.fixes = << >>

RECURSIVE Handed(_)
\* all fixes handed to apply_all_fixes so far, in call order
Handed(calls) ==
    IF calls = << >> THEN << >>
    ELSE Handed(SubSeq(calls, 1, Len(calls) - 1)) \o calls[Len(calls)][2]

\* C8: in the graph the fixes handed to the Patch Applier are, position by
\* position, the fixes of final_fixes, each handed once; fix_results holds
\* one record (fixed or failed) per fix of final_fixes in the same order once
\* Applying has returned; earlier fixes and records are never changed; and an
\* Applying step with no new fixes calls nothing and changes nothing.
C8_AppliedOnce ==
    /\ []( entry = "run_agent" =>
             /\ IsPrefix(Handed(applier_calls), final_fixes)
             /\ IsPrefix(FixesOf(fix_results), Handed(applier_calls))
             /\ \A i \in 1..Len(fix_results) :
                   fix_results[i].status \in {"fixed", "failed"}
             /\ pc \in {"verify_fix", "save_results", "analyze_logs",
                        "generate_fix", "END"} =>
                   FixesOf(fix_results) = final_fixes )
    /\ [][ /\ IsPrefix(final_fixes, final_fixes')
           /\ IsPrefix(fix_results, fix_results')
           /\ (pc = "apply_fix" /\ Len(final_fixes) = Len(fix_results)) =>
                 (fix_results' = fix_results /\ applier_calls' = applier_calls)
         ]_vars

\* two iterations, each of which generated and applied one fix
C8_Witness ==
    /\ entry = "run_agent"
    /\ pc = "verify_fix"
    /\ Len(applier_calls) = 2
    /\ Len(fix_results) = 2
    /\ fix_results[1].fix # fix_results[2].fix
    /\ fix_results[1].status = "failed"

\* ---------------------------------------------------------------- C9
\* C9: an exception propagates to the caller only from the first iteration;
\* from iteration 2 on the run still ends in Done.
C9_OnlyFirstIterationPropagates ==
    pc = "raised" =>
        IF entry = "run_agent" THEN current_iteration = 1 ELSE iteration <= 1

\* --------------------------------------------------------------- C10
\* C10: with no provider credentials, a generate step for a non-empty error
\* list can only raise: the run ends there with no fix generated or applied
\* and no summary produced.
C10_NoProviderIsFatal ==
    (API_KEYS = {} /\ error_logs # << >>) =>
        /\ pc \in {"generate_fix", "v2_generate", "raised"}
        /\ final_fixes = << >>
        /\ fixes = << >>
        /\ applier_calls = << >>
        /\ results = << >>
        /\ run_result = << >>

C10_Witness ==
    /\ API_KEYS = {}
    /\ error_logs # << >>
    /\ pc = "raised"
    /\ engine_calls = << 1 >>
    /\ engine_result.outcome = "raised"

\* ---------------------------------------------------------------- C11
\* bug_type is one of the six types and commit_message starts with the prefix
WellFormed(fix) ==
    /\ in_VALID_BUG_TYPES(fix.bug_type)
    /\ fix.commit_message.t = "str"
    /\ startswith_prefix(fix.commit_message.s)

\* an object that lacks nothing but what normalize_fix supplies
Repairable(e) ==
    /\ e.json = "object"
    /\ e.file_path.t # "absent"
    /\ e.line_number.t # "absent"
    /\ e.fix_description.t # "absent"

\* the fixes generate_fixes returned
Returned_fixes == gen_result.fixes

\* C11: every fix generate_fixes returns, whichever strategy produced it, has
\* a bug_type among the six types and a commit_message starting with
\* "[AI-AGENT]"; and an element of the provider's answer whose bug_type is
\* invalid or whose prefix is missing is returned coerced (bug_type LINTING,
\* prefix synthesized) rather than rejected, when it is the first for its
\* (file_path, line_number).
C11_ReturnedFixesWellFormed ==
    gen_result.outcome = "returned" =>
        /\ \A k \in 1..Len(Returned_fixes) : WellFormed(Returned_fixes[k])
        /\ LET elements == parse_llm_response(raw_response) IN
           \A i \in 1..Len(elements) :
               ( /\ Repairable(elements[i])
                 /\ \A j \in 1..(i - 1) :
                        Repairable(elements[j]) =>
                            DedupeKey(elements[j]) # DedupeKey(elements[i]) )
               => \E k \in 1..Len(Returned_fixes) :
                      /\ Returned_fixes[k].fix_description =
                             elements[i].fix_description
                      /\ Returned_fixes[k].bug_type =
                             IF in_VALID_BUG_TYPES(elements[i].bug_type)
                             THEN elements[i].bug_type
                             ELSE Str(<< "LINTING" >>)

\* generate_fixes returned a fix coerced from bug_type "STYLE" together with
\* one whose prefix was synthesized
C11_Witness ==
    /\ gen_result.outcome = "returned"
    /\ \E k \in 1..Len(Returned_fixes) :
           /\ Returned_fixes[k].fix_description = Str(<< "d3" >>)
           /\ Returned_fixes[k].bug_type = Str(<< "LINTING" >>)
    /\ \E k \in 1..Len(Returned_fixes) :
           /\ Returned_fixes[k].fix_description = Str(<< "d4" >>)
           /\ startswith_prefix(Returned_fixes[k].commit_message.s)

\* ---------------------------------------------------------------- C12
\* C12: the sequence generate_fixes returns never holds two fixes with the
\* same (file_path, line_number).
C12_NoDuplicateKeys ==
    gen_result.outcome = "returned" =>
        \A i \in 1..Len(Returned_fixes) :
            \A j \in 1..Len(Returned_fixes) :
                i # j => DedupeKey(Returned_fixes[i]) # DedupeKey(Returned_fixes[j])

\* ---------------------------------------------------------------- C13
\* the validated fixes the provider's answer gave
LlmValidated == llm_fixes(parse_llm_response(raw_response))

\* err is the key of a validated fix of the provider
CoveredByLlm(err) ==
    \E i \in 1..Len(LlmValidated) : KeyOf(LlmValidated[i]) = KeyOf(err)

\* the errors _generate_rule_fixes was called with, in call order
Offered == [i \in 1..Len(rule_calls) |-> rule_calls[i].err]

\* C13: when generate_fixes returns after asking the provider, the errors
\* handed to the rule-based strategy are exactly the errors, in order, whose
\* (file_path, line_number) is the key of no validated LLM fix.
C13_RuleBasedOnlyUncovered ==
    (gen_result.outcome = "returned" /\ raw_response # NoResponse) =>
        Offered = SelectSeq(errors_arg, LAMBDA e : ~CoveredByLlm(e))

\* a call in which one error was covered by the provider and another was
\* handed to the rule-based strategy
C13_Witness ==
    /\ gen_result.outcome = "returned"
    /\ \E i \in 1..Len(errors_arg) : CoveredByLlm(errors_arg[i])
    /\ Len(rule_calls) >= 1
    /\ \E i \in 1..Len(rule_calls) : rule_calls[i].fixes # << >>

\* ---------------------------------------------------------------- C14
\* C14: whatever text the provider returned, generate_fixes does not raise.
C14_NeverRaisesOnProviderText ==
    raw_response # NoResponse => gen_result.outcome # "raised"

\* ---------------------------------------------------------------- C15
\* what a run holds was written by that run
Own(r, file) == file = NoFile \/ file[1].writer = r

\* C15: under any interleaving of two runs, whatever paths they target, the
\* error list a run analysed, the summary its run_agent returned and the
\* results stored for it were produced by that run and never by the other,
\* and no run fails because of the other.
C15_RunsIsolated ==
    \A r \in RunIds :
        /\ Own(r, threads[r].error_logs)
        /\ Own(r, threads[r].results)
        /\ Own(r, runs[r].results)
        /\ runs[r].status # "failed"

\* ---------------------------------------------------------------- C16
\* the findings of `tool` among the errors the step returned
FromTool(tool) == { i \in 1..Len(analysis.errors) : analysis.errors[i] = tool }

SourceIs(name) == raw_finding.source = Str(<< name >>)

\* C17: for every finding whose source is the type checker (mypy), whatever
\* its message and rule code, classify_bug_type returns TYPE_ERROR and does
\* not raise.
C17_MypyIsTypeError ==
    (classified.outcome # "not_called" /\ SourceIs("mypy")) =>
        classified = [outcome |-> "returned", bug_type |-> "TYPE_ERROR"]

\* ---------------------------------------------------------------- C18
\* the finding's source and message are text (or missing)
TextFinding ==
    /\ raw_finding.source.t \in {"str", "absent"}
    /\ raw_finding.message.t \in {"str", "absent"}

\* the lower-case message of the finding
Message == lower(Get(raw_finding, "message", Str(<< >>)).s)

\* no keyword of any heuristic occurs in the message and the rule code has
\* none of the special prefixes
NoHeuristicMatches ==
    /\ \A i \in 1..Len(Message) : Keywords(Message[i]) = {}
    /\ ~InTypeError(Message)
    /\ \A p \in {"F4", "E1", "E9"} :
           ~StartsWith(upper(Get(raw_finding, "rule_code", Str(<< >>)).s), p)

\* C18: classify_bug_type is total: for every finding, with rule_code
\* present, absent or null, it returns one of the six bug types and never
\* raises, and it returns LINTING when no heuristic matches (for a source
\* other than the test runner, whose default is LOGIC).
C18_ClassifierTotal ==
    (classified.outcome # "not_called" /\ TextFinding) =>
        /\ classified.outcome = "returned"
        /\ classified.bug_type \in VALID_BUG_TYPES
        /\ (NoHeuristicMatches /\ ~SourceIs("pytest"))
               => classified.bug_type = "LINTING"

\* ---------------------------------------------------------------- C19
\* the first match in the order the claim gives, by exception name
PytestChain ==
    IF In("typeerror", Message) THEN "TYPE_ERROR"
    ELSE IF In("syntaxerror", Message) THEN "SYNTAX"
    ELSE IF In("importerror", Message) \/ In("modulenotfounderror", Message)
    THEN "IMPORT"
    ELSE IF In("indentationerror", Message) THEN "INDENTATION"
    ELSE "LOGIC"

\* C19: for a finding from the test runner, classify_bug_type returns the
\* first match in the order TypeError, SyntaxError, ImportError or
\* ModuleNotFoundError, IndentationError, and LOGIC for a message that names
\* none of these exceptions.
C19_PytestFirstMatch ==
    (classified.outcome = "returned" /\ SourceIs("pytest")) =>
        classified.bug_type = PytestChain

\* ---------------------------------------------------------------- C20
\* C20: a finding whose message is both import-related and an assertion
\* failure is classified IMPORT, never LOGIC, for every source.
C20_ImportBeforeLogic ==
    ( /\ classified.outcome = "returned"
      /\ In("import", Message)
      /\ In("assert", Message) )
    => classified.bug_type = "IMPORT"

\* ---------------------------------------------------------------- C21
\* the finding comes from the linter
FromRuff ==
    /\ raw_finding.source.t = "str"
    /\ raw_finding.source.s \in {<< "ruff" >>, << "Ruff" >>}

\* the rule codes of a family, by their two-character prefix
Family(p) ==
    CASE p = "F4" -> {"F401", "f401"}
      [] p = "E1" -> {"E111"}
      [] p = "E9" -> {"E999"}

\* the finding's rule code is in the family
CodeIn(p) ==
    /\ raw_finding.rule_code.t = "str"
    /\ raw_finding.rule_code.s # << >>
    /\ raw_finding.rule_code.s[1] \in Family(p)

\* the first match in the order the claim gives
RuffChain ==
    IF CodeIn("F4") \/ In("import", Message) THEN "IMPORT"
    ELSE IF CodeIn("E1") \/ In("indent", Message) THEN "INDENTATION"
    ELSE IF CodeIn("E9") \/ In("syntax", Message) THEN "SYNTAX"
    ELSE "LINTING"

\* C21: for a finding from the linter, classify_bug_type returns IMPORT when
\* the rule code has prefix F4 or the message mentions import; otherwise
\* INDENTATION for prefix E1 or a message that mentions indent; otherwise
\* SYNTAX for prefix E9 or a message that mentions syntax; every other
\* linter finding is LINTING.
C21_RuffFirstMatch ==
    (classified.outcome = "returned" /\ FromRuff) =>
        classified.bug_type = RuffChain

\* a linter finding whose rule code is in the indentation family and whose
\* message mentions import: the first rule of the chain wins
C21_Witness ==
    /\ classified.outcome = "returned"
    /\ FromRuff
    /\ CodeIn("E1")
    /\ In("import", Message)
    /\ classified.bug_type = "IMPORT"

\* ---------------------------------------------------------------- C22
\* the list main() wrote
Output == agg_result.output

\* the findings of the three tools in merge order
Merged == agg_result.ruff \o agg_result.mypy \o agg_result.pytest

\* C22: the aggregator's output is sorted ascending by (file, line) and no
\* two of its entries have the same (file, line, type).
C22_SortedNoDuplicates ==
    agg_result.outcome = "returned" =>
        \A i, j \in 1..Len(Output) :
            i < j =>
                /\ \/ StrLess(Output[i].file, Output[j].file)
                   \/ /\ Output[i].file = Output[j].file
                      /\ Output[i].line <= Output[j].line
                /\ << Output[i].file, Output[i].line, Output[i].type >>
                       # << Output[j].file, Output[j].line, Output[j].type >>

\* a run in which the sort moved an entry and deduplication dropped one
C22_Witness ==
    /\ agg_result.outcome = "returned"
    /\ Len(Output) >= 2
    /\ Output # agg_result.valid_errors
    /\ Len(agg_result.unique_errors) < Len(Merged)

\* ---------------------------------------------------------------- C23
\* the finding is the first one of the merge with its (file, line, type)
FirstOfKey(i) ==
    \A j \in 1..(i - 1) :
        \/ Merged[j].file # Merged[i].file
        \/ Merged[j].line # Merged[i].line
        \/ Merged[j].type # Merged[i].type

\* the entry is the finding, up to the repair of its message
SameFinding(written, finding) ==
    /\ written.file = finding.file
    /\ written.line = finding.line
    /\ written.type = finding.type
    /\ written.source = finding.source
    /\ written.code = finding.code
    /\ written.message \in {finding.message, Str(<< "Unknown error" >>)}

Passes(e) ==
    /\ e.file # << >>
    /\ e.line > 0
    /\ e.type \in VALID_BUG_TYPES

\* the entry has a message
HasMessage(e) == e.message.t = "str" /\ e.message.s # << >>

\* C24: every record of the output has a non-empty file path, a line number
\* above 0, one of the six bug types and a non-empty message; a record that
\* fails one of the first three is dropped, and a record with an empty or
\* missing message is kept with the message "Unknown error".
C24_OutputRecordsValid ==
    agg_result.outcome = "returned" =>
        /\ \A k \in 1..Len(Output) :
               Passes(Output[k]) /\ HasMessage(Output[k])
        /\ Len(Output) =
               Cardinality({ i \in 1..Len(agg_result.unique_errors) :
                               Passes(agg_result.unique_errors[i]) })
        /\ \A i \in 1..Len(agg_result.unique_errors) :
               LET e == agg_result.unique_errors[i] IN
               (Passes(e) /\ ~HasMessage(e)) =>
                   \E k \in 1..Len(Output) :
                       Output[k] =
                           [e EXCEPT !.message = Str(<< "Unknown error" >>)]

\* a run in which one record is dropped for its empty file path and another,
\* whose message is null, is written with the placeholder
C24_Witness ==
    /\ agg_result.outcome = "returned"
    /\ \E i \in 1..Len(agg_result.unique_errors) :
           agg_result.unique_errors[i].file = << >>
    /\ \E i \in 1..Len(agg_result.unique_errors) :
           agg_result.unique_errors[i].message = Null
    /\ Len(Output) = Len(agg_result.unique_errors) - 1
    /\ \E k \in 1..Len(Output) :
           Output[k].message = Str(<< "Unknown error" >>)

\* ---------------------------------------------------------------- C25
\* the tool's file is missing or its content is malformed
Malformed(tool) ==
    \/ tool_outputs[tool].form
           \in {"missing", "invalid", "nonlist", "nonobject", "tests_null"}
    \/ /\ tool = "ruff"
       /\ \E i \in 1..Len(tool_outputs.ruff.items) :
              LET it == tool_outputs.ruff.items[i] IN
              it.json # "object" \/ it.location = "null"
    \/ /\ tool = "pytest"
       /\ \E i \in 1..Len(tool_outputs.pytest.items) :
              LET test == tool_outputs.pytest.items[i] IN
              test.json # "object" \/ test.call = "null"
                  \/ test.message = Null

\* C25: for each tool, a missing file and malformed content (invalid JSON or
\* valid JSON of an unexpected shape) give zero findings from that tool and
\* never raise, so the aggregation of the other tools' findings completes.
C25_MalformedIsZeroFindings ==
    agg_result.outcome # "not_called" =>
        /\ agg_result.outcome = "returned"
        /\ \A tool \in {"ruff", "mypy", "pytest"} :
               Malformed(tool) => agg_result[tool] = << >>

\* ---------------------------------------------------------------- C26
\* C26: every file path of the output is normalized: it has no backslash
\* and does not start with "./", so findings that differ only in the
\* spelling of the same path, with the same line and type, collapse into one.
C26_PathsNormalized ==
    agg_result.outcome = "returned" =>
        \A k \in 1..Len(Output) :
            /\ "\\" \notin Range(Output[k].file)
            /\ ~(/\ Len(Output[k].file) >= 2
                 /\ Output[k].file[1] = "."
                 /\ Output[k].file[2] = "/")

\* ---------------------------------------------------------------- C27
\* the element of errors.json is a record the loop can work on: a file path
\* that is not empty and a line number above 0
ValidRecord(item) ==
    /\ item.json = "object"
    /\ item.file.t = "str" /\ item.file.s # << >>
    /\ item.line.t = "int" /\ item.line.n > 0

\* C27: parse_errors_json never raises; a missing file, invalid JSON and a
\* document that is no list give the empty list; every record it returns has
\* a non-empty file_path and a line_number > 0, so an element of the
\* document without them is dropped.
C27_ParsedRecordsValid ==
    parse_result.outcome # "not_called" =>
        /\ parse_result.outcome = "returned"
        /\ errors_doc.form # "list" => parse_result.errors = << >>
        /\ \A i \in 1..Len(parse_result.errors) :
               /\ parse_result.errors[i].file_path.t = "str"
               /\ parse_result.errors[i].file_path.s # << >>
               /\ parse_result.errors[i].line_number.n > 0
        /\ Len(parse_result.errors) <=
               Cardinality({ i \in 1..Len(errors_doc.items) :
                               ValidRecord(errors_doc.items[i]) })

UnusedImport(err) ==
    /\ \/ err.rule_code = Str(<< "F401" >>)
       \/ err.raw_message.s[1] = "F401"
    /\ Len(err.raw_message.s) >= 2
    /\ err.raw_message.s[Len(err.raw_message.s)] = "imported but unused"

\* the fix removes the import on the error's line
RemovesImport(fix, err) ==
    /\ fix.file_path = err.file_path
    /\ fix.line_number = err.line_number
    /\ fix.bug_type = Str(<< "IMPORT" >>)
    /\ fix.fix_description.s[1] = "remove unused import"
    /\ fix.fixed_code = Str(<< >>)

\* C29: an F401 finding with a message "`X` imported but unused" is
\* classified IMPORT, and when no validated LLM fix covers it the rule-based
\* layer returns exactly one Fix for it: at its file and line, with bug_type
\* IMPORT, a description of removing the import and an empty fixed_code.
C29_UnusedImportRule ==
    /\ \A i \in 1..Len(errors_arg) :
           UnusedImport(errors_arg[i]) =>
               errors_arg[i].bug_type = Str(<< "IMPORT" >>)
    /\ \A i \in 1..Len(rule_calls) :
           UnusedImport(rule_calls[i].err) =>
               /\ Len(rule_calls[i].fixes) = 1
               /\ RemovesImport(rule_calls[i].fixes[1], rule_calls[i].err)
    /\ (gen_result.outcome = "returned" /\ raw_response # NoResponse) =>
           \A i \in 1..Len(errors_arg) :
               (UnusedImport(errors_arg[i]) /\ ~CoveredByLlm(errors_arg[i]))
                   => \E k \in 1..Len(rule_calls) :
                          rule_calls[k].err = errors_arg[i]

\* an unused import next to an error the provider fixed: the rule-based fix
\* for the import is among the fixes generate_fixes returned
C29_Witness ==
    /\ gen_result.outcome = "returned"
    /\ LlmValidated # << >>
    /\ \E i \in 1..Len(rule_calls) :
           /\ rule_calls[i].err.rule_code = Str(<< "F401" >>)
           /\ UnusedImport(rule_calls[i].err)
           /\ \E k \in 1..Len(gen_result.fixes) :
                  gen_result.fixes[k] = rule_calls[i].fixes[1]

\* ---------------------------------------------------------------- C30
\* C30: calculate_score returns final_score = max(0, 100 + bonus - penalty)
\* with bonus = 10 if elapsed < 300 seconds and 0 otherwise, and penalty =
\* 2 * max(0, commits - 20); the fix counts do not affect it (200 s and 5
\* commits give 110, 600 s gives 100, 25 commits at 200 s give 100), and
\* final_score is never negative.
C30_ScoreFormula ==
    score.outcome = "returned" =>
        LET bonus == IF score_args.elapsed_seconds < 300 THEN 10 ELSE 0
            over == IF score_args.total_commits > 20
                    THEN score_args.total_commits - 20 ELSE 0
            penalty == 2 * over
        IN  /\ score.final_score =
                   (IF 100 + bonus - penalty > 0
                    THEN 100 + bonus - penalty ELSE 0)
            /\ score.final_score >= 0
            /\ (score_args.elapsed_seconds = 200
                   /\ score_args.total_commits = 5)
                   => score.final_score = 110
            /\ (score_args.elapsed_seconds = 600
                   /\ score_args.total_commits = 5)
                   => score.final_score = 100
            /\ (score_args.elapsed_seconds = 200
                   /\ score_args.total_commits = 25)
                   => score.final_score = 100

\* a run with so many commits that the penalty exceeds base and bonus: the
\* score is floored at 0
C30_Witness ==
    /\ score.outcome = "returned"
    /\ score_args.total_commits = MaxCommits
    /\ score_args.elapsed_seconds = 200
    /\ score_args.total_fixes = 5
    /\ score_args.successful_fixes = 0
    /\ score.final_score = 0

\* C31: build_branch_name returns T + "_" + L + "_AI_Fix", T and L being the
\* names uppercased, trimmed, each space replaced by an underscore and every
\* character outside A-Z, 0-9 and underscore removed; the part before the
\* suffix holds only such characters.
\* what one character of a trimmed name contributes to the branch name
Contribution(c) ==
    CASE c = " " -> << "_" >>
      [] c = "a" -> << "A" >>
      [] c = "7" -> << "7" >>
      [] OTHER -> << >>

\* the name without its leading and trailing whitespace
Trimmed(name) ==
    LET solid == { i \in 1..Len(name) : name[i] \notin Whitespace }
    IN  IF solid = {} THEN << >>
        ELSE SubSeq(name, CHOOSE i \in solid : \A j \in solid : i <= j,
                          CHOOSE i \in solid : \A j \in solid : i >= j)

RECURSIVE Cleaned(_)
Cleaned(name) ==
    IF name = << >> THEN << >>
    ELSE Contribution(Head(name)) \o Cleaned(Tail(name))

AI_Fix == << "_", "A", "I", "_", "F", "i", "x" >>

C31_BranchName ==
    branch.outcome = "returned" =>
        LET T == Cleaned(Trimmed(branch_args.team_name))
            L == Cleaned(Trimmed(branch_args.leader_name))
            stem == SubSeq(branch.name, 1, Len(branch.name) - Len(AI_Fix))
        IN  /\ branch.name = T \o << "_" >> \o L \o AI_Fix
            /\ \A i \in 1..Len(stem) : stem[i] \in {"A", "7", "_"}

C31_Witness ==
    /\ branch.outcome = "returned"
    /\ branch_args.team_name = << " ", "a", "-" >>
    /\ branch_args.leader_name = << "a", " ", "7" >>
    /\ branch.name = << "A", "_", "A", "_", "7" >> \o AI_Fix

\* C32: call_llm tries the configured primary provider first when it has
\* credentials, then every other provider with credentials in the order groq,
\* google, anthropic, openai, each at most once; it returns the first response
\* that is not an error and calls no provider after it; when all of them fail,
\* generation goes on with zero fixes from the provider instead of aborting.
Called == [i \in 1..Len(llm_calls) |-> llm_calls[i].provider]

\* position of a provider in the fixed order
OrderRank(n) == CHOOSE i \in 1..Len(FallbackOrder) : FallbackOrder[i] = n

Failed(i) == llm_calls[i].outcome # "answer"

C32_FallbackChain ==
    LET n == Len(llm_calls)
        primary_first == LLM_PROVIDER \in API_KEYS
    IN  /\ \A i \in 1..n : Called[i] \in API_KEYS
        /\ \A i, j \in 1..n : i # j => Called[i] # Called[j]
        /\ (primary_first /\ n >= 1) => Called[1] = LLM_PROVIDER
        /\ \A i \in 1..n :
             (primary_first => i > 1) =>
               \* the providers with credentials ranked before this one
               \* have all been called before it
               \A m \in API_KEYS :
                 OrderRank(m) < OrderRank(Called[i]) => \E j \in 1..(i - 1) : Called[j] = m
        /\ \A i \in 1..(n - 1) : Failed(i)
        /\ llm_result.outcome \in {"returned", "parsed"} =>
             /\ n >= 1
             /\ \/ ~Failed(n) /\ ~is_llm_error(llm_result.text)
                \/ /\ \A i \in 1..n : Failed(i)
                   /\ Range(Called) = API_KEYS
        /\ (llm_result.outcome = "trying" /\ n >= 1) => Failed(n)
        /\ (llm_result.outcome = "parsed" /\ \A i \in 1..n : Failed(i)) =>
             llm_result.fixes = << >>
        /\ (n >= 1) => llm_result.outcome # "raised"

C32_Witness ==
    /\ LLM_PROVIDER = "openai"
    /\ API_KEYS = {"groq", "anthropic", "openai"}
    /\ Called = << "openai", "groq", "anthropic" >>
    /\ \A i \in 1..3 : Failed(i)
    /\ llm_result.outcome = "parsed"
    /\ llm_result.fixes = << >>

\* C33: a provider call that fails transiently (rate limit, network error) is
\* made again on the same provider before the engine gives up on it.
Transient(i) == llm_calls[i].outcome \in {"rate_limit", "network"}

C33_TransientRetried ==
    \A i \in 1..Len(llm_calls) :
        (/\ Transient(i)
         /\ \A j \in 1..(i - 1) : Called[j] # Called[i]
         /\ (i < Len(llm_calls) \/ llm_result.outcome # "trying")) =>
            \E j \in (i + 1)..Len(llm_calls) : Called[j] = Called[i]

\* C34: the linter-autofix strategy runs only when the provider's fixes and
\* the rule-based fixes together are empty; every fix it reports carries the
\* already-applied flag, and it reports no more fixes than the number of
\* issues ruff says it fixed.
AutofixRan == ruff_fix.outcome # "not_run"

C34_AutofixLastResort ==
    /\ AutofixRan =>
         /\ llm_fixes(parse_llm_response(raw_response)) = << >>
         /\ \A i \in 1..Len(rule_calls) : rule_calls[i].fixes = << >>
    /\ (AutofixRan /\ gen_result.outcome = "returned") =>
         /\ Len(gen_result.fixes) <= ruff_fix.count
         /\ \A i \in 1..Len(gen_result.fixes) :
              /\ "already_applied" \in DOMAIN gen_result.fixes[i]
              /\ gen_result.fixes[i].already_applied
    /\ (~AutofixRan /\ gen_result.outcome = "returned") =>
         \A i \in 1..Len(gen_result.fixes) :
             "already_applied" \notin DOMAIN gen_result.fixes[i]

C34_Witness ==
    /\ ruff_fix = [outcome |-> "fixed", count |-> 1]
    /\ Len(linting(errors_arg)) = 2
    /\ raw_response.form = "array"
    /\ Len(raw_response.items) = 1
    /\ Len(rule_calls) = 2
    /\ gen_result.outcome = "returned"
    /\ Len(gen_result.fixes) = 1
    /\ gen_result.fixes[1].already_applied

\* C36: the half-open range [scope_start, scope_end) that
\* _find_function_scope returns contains the target line, so the fixes of a
\* scope-aware E741 rename include one for the flagged line itself.
C36_ScopeHoldsTarget ==
    scope.outcome = "returned" =>
        /\ scope.scope_start <= scope_args.line_number - 1
        /\ scope_args.line_number - 1 < scope.scope_end
        /\ scope.fix_lines # {} => scope_args.line_number \in scope.fix_lines

\* C35: when the rule-based layer handles an E741 error, the fixes returned
\* by generate_fixes hold a rename fix for every line of the enclosing scope
\* that uses the identifier, the flagged line among them - also when the
\* provider or another rule produced a fix for one of those lines.
IsE741(err) == "ambiguous variable name:" \in Range(lower(err.raw_message.s))

Returns(fix) ==
    \E j \in 1..Len(gen_result.fixes) : gen_result.fixes[j] = normalize_fix(fix)

C35_RenameWholeScope ==
    (gen_result.outcome = "returned" /\ ~AutofixRan) =>
        \A i \in 1..Len(rule_calls) :
            IsE741(rule_calls[i].err) =>
                \A k \in 1..Len(rule_calls[i].fixes) :
                    Returns(rule_calls[i].fixes[k])

\* C37: at Done all_passed is true exactly when the last Analyzing pass gave
\* an empty error list, whatever made it empty, and the summary then says
\* PASSED; fixes applied in the last iteration are followed by no analysis,
\* so a run that ends after applying fixes ends with all_passed false.
AppliedInLastPass ==
    applier_calls # << >> /\ Last(applier_calls)[1] = passes

C37_PassedIffLastPassEmpty ==
    pc = "END" =>
        /\ passes >= 1
        /\ all_passed <=> (Last(error_count_history) = 0)
        /\ entry = "run_agent" =>
             /\ results[1].all_tests_passed = all_passed
             /\ (results[1].ci_status = "PASSED") <=> all_passed
        /\ entry = "run_agent_v2" => run_result[1].all_passed = all_passed
        /\ AppliedInLastPass => ~all_passed

C37_Witness ==
    /\ entry = "run_agent"
    /\ pc = "END"
    /\ error_count_history = << 2, 0 >>
    /\ Len(applier_calls) = 1
    /\ all_passed
    /\ results[1].ci_status = "PASSED"

\* C38: run_agent_v2 carries out the loop of the run_agent graph: on the
\* analysis results a run_agent_v2 run has seen, the graph's own rules give
\* the same number of passes, the same passes with a generate step, and the
\* same all_passed and iterations_used.
\* stagnant_count of the graph after the passes of history h
RECURSIVE GraphStagnant(_)
GraphStagnant(h) ==
    IF h = << >> THEN 0
    ELSE stagnation_check(h, GraphStagnant(SubSeq(h, 1, Len(h) - 1)))

\* where the graph's edge out of verify_fix goes after pass k of history h
GraphEdge(h, k) ==
    should_continue(
        [all_passed |-> nothing_to_fix(ErrorList(h[k])),
         current_iteration |-> verify_fix(k),
         max_iterations |-> max_iterations,
         stagnant_count |-> GraphStagnant(SubSeq(h, 1, k))])

\* the passes in which the graph calls generate_fixes
GraphEngineCalls(h) ==
    SelectSeq([k \in 1..Len(h) |-> k],
              LAMBDA k : ~nothing_to_fix(ErrorList(h[k])))

C38_SameLoop ==
    (entry = "run_agent_v2" /\ pc = "END") =>
        /\ \A k \in 1..passes :
             (GraphEdge(error_count_history, k) = "save_results") <=> k = passes
        /\ engine_calls = GraphEngineCalls(error_count_history)
        /\ run_result[1].all_passed = (Last(error_count_history) = 0)
        /\ run_result[1].iterations_used = iterations_used(passes + 1)
        /\ run_result[1].error_count_history = error_count_history

\* C40: save_results gives iterations_used to the score formula as the commit
\* count, so the efficiency penalty is 2 * max(0, iterations_used - 20): 0 for
\* every run of at most 20 iterations, however many fixes were applied.
C40_CommitsAreIterations ==
    pc = "END" =>
        LET used == results[1].iterations_used
            penalty == results[1].score.efficiency_penalty
        IN  /\ used = passes
            /\ penalty = 2 * Max(0, used - 20)
            /\ used <= 20 => penalty = 0

C40_Witness ==
    /\ pc = "END"
    /\ results[1].iterations_used = 23
    /\ results[1].total_fixes_applied = 2
    /\ results[1].score.efficiency_penalty = 6
    /\ results[1].score.final_score = 104

\* C39: a run whose status reads "completed" has its results stored, so
\* GET /api/results/<run_id> never answers a completed run with a null body.
C39_CompletedHasResults ==
    /\ \A r \in RunIds :
         runs[r].status = "completed" => runs[r].results # NoFile
    /\ http_response.code = 200 => http_response.body # NoFile

====
